---- MODULE Spec2Model ----
(***************************************************************************)
(* State-machine model of the immediate-mode draw-call batching renderer   *)
(* of src/graphics/renderer.rs (Renderer, PipelineStorage, PipelineExt,    *)
(* DrawCall, RendererState) together with the part of the miniquad backend *)
(* the renderer drives (buffers, pipelines, indexed draws).                *)
(*                                                                         *)
(* Conventions                                                             *)
(*   Option<T>      None is <<>> and Some(x) is <<x>>                      *)
(*   Vec<T>         a sequence; Rust index i is TLA+ index i + 1           *)
(*   Mat4           a map t -> a * t + b on the integers mod 3, a in 1..2,  *)
(*                  as the number 3 * (a - 1) + b + 1; the product is the   *)
(*                  composition, the identity is 1                          *)
(*   a vertex       a number that is unique inside the per-frame array     *)
(*   uniform bytes  in the renderer (Spec) one cell per uniform descriptor,*)
(*                  as every write covers the whole range of a descriptor; *)
(*                  in the registry of UniformSpec one number per byte     *)
(*   panic          panicked' = TRUE; nothing runs afterwards              *)
(***************************************************************************)
EXTENDS Integers, Sequences, FiniteSets, TLC

VARIABLES
    pipelines,            \* PipelineStorage::pipelines
    draw_calls,           \* Renderer::draw_calls
    draw_calls_bindings,  \* Renderer::draw_calls_bindings
    draw_calls_count,     \* Renderer::draw_calls_count
    state,                \* Renderer::state (RendererState)
    max_vertices,         \* Renderer::max_vertices
    max_indices,          \* Renderer::max_indices
    batch_vertex_buffer,  \* Renderer::batch_vertex_buffer
    batch_index_buffer,   \* Renderer::batch_index_buffer
    gpu,                  \* the backend: live buffers and the id counters
    drawn,                \* the passes the last operation issued: the indexed
                          \* draws of draw, the clear pass of clear
    handles,              \* the pipeline handles the caller holds
    others,               \* occupied slots of a second renderer instance
    frame,                \* one entry per push since the batch was emptied
    pipelines_amount,     \* PipelineStorage::pipelines_amount
    preprocessed,         \* the last call of preprocess_shader: its source,
                          \* its includes and what it returned
    input,                \* an InputState of src/input.rs
    atlas,                \* a TextureAtlas of src/texture/atlas.rs
    varied,               \* the kinds of operation the caller has used so far
    lastOp,               \* the operation performed last: "flush", "reflush"
                          \* for a flush right after a flush, "set_uniform"
                          \* for either uniform setter, "set_texture",
                          \* "other", "push",
                          \* "broken" for a push right after a uniform setter,
                          \* or "pushes" for a push when nothing but pushes
                          \* ran since no draw call was pending
    panicked              \* the last operation panicked

vars == <<pipelines, draw_calls, draw_calls_bindings, draw_calls_count, state,
          max_vertices, max_indices, batch_vertex_buffer, batch_index_buffer,
          gpu, drawn, handles, others, frame, pipelines_amount, varied,
          lastOp, panicked, preprocessed, input, atlas>>

----------------------------------------------------------------------------
(* Bounds of the model *)

\* capacity the renderer is constructed with (Renderer::new arguments)
MaxVerticesInit == 3
MaxIndicesInit == 4
\* the per-frame vertex array never grows past this many vertices
MaxBatch == 3
\* at most this many draw-call records are ever allocated
MaxDrawCalls == 2
\* depth of the model-matrix stack
MaxStack == 2
\* number of make_pipeline calls on this renderer
MaxMakes == 1
\* number of pipelines made on the second renderer instance
MaxForeign == 1
\* number of update_drawcall_capacity calls
MaxResizes == 1

----------------------------------------------------------------------------
(* Values *)

None == <<>>
Some(x) == <<x>>

\* no call of preprocess_shader yet
NotPreprocessed == [pieces |-> <<>>, includes |-> <<>>, result |-> None]

\* what is known of the event an InputState was fed last
Event(kind, name, id, flag) ==
    [kind |-> kind, name |-> name, id |-> id, flag |-> flag]

\* InputState::new: the key and button sets, the touches (a set with one
\* entry per id, as the map is keyed by the id), the wheel
\* and the mouse position in pixels (the character queue and the local
\* position of the last frame are left out); event is no field of the
\* struct: it is the call made last
NewInputState(simulate_mouse_with_touch) ==
    [ keys_down |-> {}, keys_pressed |-> {}, keys_released |-> {},
      mouse_down |-> {}, mouse_pressed |-> {}, mouse_released |-> {},
      touches |-> {},
      mouse_position |-> <<0, 0>>,
      mouse_wheel |-> <<0, 0>>,
      simulate_mouse_with_touch |-> simulate_mouse_with_touch,
      event |-> Event("new", "", 0, simulate_mouse_with_touch) ]

\* TextureAtlas::new: an image of 512 by 512 (its pixels are left out), the
\* cursor in its corner, no sprite; cached and aborted are no fields of the
\* struct: the size handed to cache_sprite with each key, and whether a call
\* of cache_sprite did not return
NewAtlas ==
    [ width |-> 512, height |-> 512, cursor_x |-> 0, cursor_y |-> 0,
      max_line_height |-> 0, sprites |-> << >>, dirty |-> FALSE,
      cached |-> << >>, aborted |-> FALSE ]

MAX_PIPELINES == 32

Min(a, b) == IF a < b THEN a ELSE b

White == "White"
Textures == {"TexA"}
ClipRects == {<<10, 10, 50, 50>>}
Viewports == {<<0, 0, 100, 100>>}
RenderPasses == {"RP1"}
DrawModes == {"Triangles", "Lines"}
ScreenSize == <<320, 200>>
PassTextureSize(rp) == <<64, 64>>

\* glam::Mat4 multiplication and identity
IDENTITY == 1
MatMul(x, y) ==
    LET a == ((x - 1) \div 3) + 1
        b == (x - 1) % 3
        c == ((y - 1) \div 3) + 1
        d == (y - 1) % 3
    IN  3 * (((a * c) % 3) - 1) + ((a * d + b) % 3) + 1
Matrices == {2}

\* u16 arithmetic of the index offset (release build: wrapping)
U16(x) == x % 65536

Opt(S) == {None} \cup {Some(x) : x \in S}

\* what make_pipeline may be asked for: caller uniforms and texture names
\* miniquad::UniformDesc: name, byte size of the type, array count
UniformDesc(name, size, count) ==
    [name |-> name, uniform_type |-> size, array_count |-> count]

UserUniform == UniformDesc("U", 4, 1)

PipelineDecls ==
    { [uniforms |-> <<UserUniform>>, textures |-> <<"A", "B">>] }

\* a uniform value: its size in bytes and its content
UniformValue(size, v) == [size |-> size, v |-> v]
UniformInputs == { <<"U", UniformValue(4, 7)>>, <<"U", UniformValue(8, 7)>>,
                   <<"V", UniformValue(4, 7)>> }
\* the texture names the pipelines declare
DeclaredTextures == {"A", "B"}
\* the names set_texture is called with: "C" is declared by no pipeline
TextureNames == {"A", "B", "C"}
\* the textures set_texture is called with
TextureValues == Textures \cup {White}
Projections == {3}
Times == {9}

\* geometry the caller pushes: <<number of vertices, number of indices>>
PushShapes ==
    { <<1, 1>>, <<MaxVerticesInit + 1, 2>>, <<1, MaxIndicesInit + 1>> }

\* indices that are valid for nv vertices and use the last vertex
ShapeIndices(nv, ni) == [i \in 1..ni |-> (nv - i) % nv]

\* new capacities update_drawcall_capacity may be given
Capacities == { <<MaxVerticesInit - 1, MaxIndicesInit - 1>> }

----------------------------------------------------------------------------
(* shader::uniforms and PipelineStorage *)

ShaderUniforms ==
    << UniformDesc("Projection", 64, 1), UniformDesc("Model", 64, 1),
       UniformDesc("_Time", 16, 1) >>

TRIANGLES_PIPELINE == 0
LINES_PIPELINE == 1
TRIANGLES_DEPTH_PIPELINE == 2
LINES_DEPTH_PIPELINE == 3

ZeroBytes(n) == [i \in 1..n |-> 0]

\* a scan that advances the offset by the size of one element
RECURSIVE ScanUniformsOneElement(_, _)
ScanUniformsOneElement(descs, offset) ==
    IF descs = <<>> THEN <<>>
    ELSE LET d == Head(descs)
             byte_size == d.uniform_type * d.array_count
         IN  << [ name         |-> d.name,
                  uniform_type |-> d.uniform_type,
                  byte_size    |-> byte_size,
                  byte_offset  |-> offset ] >>
             \o ScanUniformsOneElement(Tail(descs), offset + d.uniform_type)

\* the record PipelineStorage::make_pipeline stores in the slot
\* the scan of make_pipeline: byte_size = size * count, byte_offset = running sum
RECURSIVE ScanUniforms(_, _)
ScanUniforms(descs, offset) ==
    IF descs = <<>> THEN <<>>
    ELSE LET d == Head(descs)
             byte_size == d.uniform_type * d.array_count
         IN  << [ name         |-> d.name,
                  uniform_type |-> d.uniform_type,
                  byte_size    |-> byte_size,
                  byte_offset  |-> offset ] >>
             \o ScanUniforms(Tail(descs), offset + byte_size)

NewPipelineExt(gpu_pipeline, uniforms, textures) ==
    LET all == ScanUniforms(ShaderUniforms \o uniforms, 0)
    IN  [ pipeline      |-> gpu_pipeline,
          uniforms      |-> all,
          uniforms_data |-> ZeroBytes(Len(all)),
          textures      |-> textures,
          textures_data |-> [n \in {} |-> White] ]

\* PipelineExt::set_uniform: the first descriptor of that name, the size checks
UniformIndex(p, name) ==
    IF \E i \in 1..Len(p.uniforms) : p.uniforms[i].name = name
    THEN CHOOSE i \in 1..Len(p.uniforms) :
            /\ p.uniforms[i].name = name
            /\ \A j \in 1..(i - 1) : p.uniforms[j].name # name
    ELSE 0

PipelineSetUniform(p, name, value) ==
    LET i == UniformIndex(p, name)
    IN  IF i = 0 THEN p
        ELSE IF value.size # p.uniforms[i].uniform_type THEN p
        ELSE IF p.uniforms[i].uniform_type # p.uniforms[i].byte_size THEN p
        ELSE IF value.size \in {4, 8, 12, 16, 64}
             THEN [p EXCEPT !.uniforms_data[i] = value.v]
             ELSE p

FreeSlots(ps) == { i \in 0..(MAX_PIPELINES - 1) : ps[i] = None }

\* a search that takes the last empty slot
LastFreeSlot(ps) == CHOOSE i \in FreeSlots(ps) : \A j \in FreeSlots(ps) : i >= j

\* position(|p| p.is_none())
FirstFreeSlot(ps) == CHOOSE i \in FreeSlots(ps) : \A j \in FreeSlots(ps) : i <= j

\* a choice of the built-in that does not look at the depth flag
GetDefaultPipelineNoDepth(draw_mode, depth_enabled) ==
    IF draw_mode = "Triangles" THEN TRIANGLES_PIPELINE ELSE LINES_PIPELINE

GetDefaultPipelineBy(draw_mode, depth_enabled) ==
    CASE draw_mode = "Triangles" /\ ~depth_enabled -> TRIANGLES_PIPELINE
      [] draw_mode = "Triangles" /\ depth_enabled  -> TRIANGLES_DEPTH_PIPELINE
      [] draw_mode = "Lines" /\ ~depth_enabled     -> LINES_PIPELINE
      [] draw_mode = "Lines" /\ depth_enabled      -> LINES_DEPTH_PIPELINE

HasPipeline(ps, id) == ps[id] # None

\* PipelineStorage::new: the four built-ins, made in order on an empty table
BuiltinPipelines ==
    [ i \in 0..(MAX_PIPELINES - 1) |->
        IF i < 4 THEN Some(NewPipelineExt(i, <<>>, <<>>)) ELSE None ]

----------------------------------------------------------------------------
(* RendererState and DrawCall *)

Model(s) == s.model_stack[Len(s.model_stack)]

InitState ==
    [ clip              |-> None,
      viewport          |-> None,
      texture           |-> None,
      model_stack       |-> <<IDENTITY>>,
      draw_mode         |-> "Triangles",
      pipeline          |-> None,
      break_batching    |-> FALSE,
      depth_test_enable |-> FALSE,
      render_pass       |-> None,
      capture           |-> FALSE ]

NewDrawCall(texture, model, draw_mode, pipeline, uniforms, render_pass) ==
    [ vertices_start |-> 0,
      indices_start  |-> 0,
      vertices_count |-> 0,
      indices_count  |-> 0,
      viewport       |-> None,
      clip           |-> None,
      texture        |-> texture,
      model          |-> model,
      draw_mode      |-> draw_mode,
      pipeline       |-> pipeline,
      uniforms       |-> uniforms,
      render_pass    |-> render_pass,
      capture        |-> FALSE ]

----------------------------------------------------------------------------
Init ==
    /\ pipelines = BuiltinPipelines
    /\ draw_calls = <<>>
    /\ draw_calls_bindings = <<>>
    /\ draw_calls_count = 0
    /\ state = InitState
    /\ max_vertices = MaxVerticesInit
    /\ max_indices = MaxIndicesInit
    /\ batch_vertex_buffer = <<>>
    /\ batch_index_buffer = <<>>
    /\ gpu = [next_buffer |-> 0, buffers |-> {}, next_pipeline |-> 4,
              resizes |-> 0]
    /\ drawn = <<>>
    /\ handles = {}
    /\ others = {0, 1, 2, 3}
    /\ frame = <<>>
    /\ pipelines_amount = 4
    /\ preprocessed = NotPreprocessed
    /\ input = NewInputState(FALSE)
    /\ atlas = NewAtlas
    /\ varied = {}
    /\ lastOp = "other"
    /\ panicked = FALSE

----------------------------------------------------------------------------
(* The callers explored.  Every operation but draw and a push_geometry that
   fits the capacity is of one kind; a run uses the kinds of one profile
   only, so that the state space explored is the union, not the product, of
   the profiles.  A with_depth_test before the first draw call is of the kind
   "depth_setup" too; a set_texture of the white texture or of a name no
   pipeline declares is of the kind "rebind". *)

StateFields ==
    { "capture", "render_pass", "depth_test_enable", "texture", "clip",
      "viewport", "draw_mode", "model_stack" }

Profiles ==
    { {f} : f \in StateFields }
    \cup { {"oversize", "capacity"},
           {"frame", "capacity"},
           {"draw_mode", "depth_setup"},
           {"clip", "render_pass"},
           {"frame", "render_pass"},
           {"make_pipeline", "set_texture", "rebind"},
           {"make_pipeline", "with_pipeline", "draw_mode"},
           {"make_pipeline", "with_pipeline", "set_texture"},
           {"make_pipeline", "with_pipeline", "set_uniform"},
           {"make_pipeline", "set_uniform", "draw_mode"},
           {"make_pipeline", "with_pipeline", "delete_pipeline", "oversize"},
           {"make_pipeline", "other_renderer", "with_pipeline"},
           {"make_pipeline", "other_renderer", "set_uniform"},
           {"make_pipeline", "other_renderer", "set_texture"} }

Uses(kind) ==
    /\ \E P \in Profiles : varied \cup {kind} \subseteq P
    /\ varied' = varied \cup {kind}

----------------------------------------------------------------------------
(* Render State mutators *)

\* what every operation that is not a flush leaves behind: no indexed draw
Quiet(op) ==
    /\ drawn' = <<>>
    /\ lastOp' = op
    /\ panicked' = FALSE

Mutate(field, s) ==
    /\ ~panicked
    /\ Uses(field)
    /\ state' = s
    /\ Quiet("other")
    /\ UNCHANGED <<pipelines, draw_calls, draw_calls_bindings, draw_calls_count,
                   max_vertices, max_indices, batch_vertex_buffer,
                   batch_index_buffer, gpu, handles, others, frame,
                   pipelines_amount, preprocessed, input, atlas>>

WithCapture == \E c \in BOOLEAN : Mutate("capture", [state EXCEPT !.capture = c])

WithRenderPass ==
    \E rp \in Opt(RenderPasses) : Mutate("render_pass", [state EXCEPT !.render_pass = rp])

WithDepthTest ==
    \E e \in BOOLEAN :
        \/ Mutate("depth_test_enable", [state EXCEPT !.depth_test_enable = e])
        \/ /\ draw_calls = <<>>
           /\ Mutate("depth_setup", [state EXCEPT !.depth_test_enable = e])

WithTexture == \E t \in Opt(Textures) : Mutate("texture", [state EXCEPT !.texture = t])

WithScissor == \E c \in Opt(ClipRects) : Mutate("clip", [state EXCEPT !.clip = c])

WithViewport == \E v \in Opt(Viewports) : Mutate("viewport", [state EXCEPT !.viewport = v])

WithDrawMode == \E m \in DrawModes : Mutate("draw_mode", [state EXCEPT !.draw_mode = m])

\* a push of matrix * top
PushModelMatrixLeft(s, matrix) ==
    [s EXCEPT !.model_stack = Append(@, MatMul(matrix, Model(s)))]

\* push_model_matrix: model() * matrix on top of the stack
PushModelMatrixResult(s, matrix) ==
    [s EXCEPT !.model_stack = Append(@, MatMul(Model(s), matrix))]

PushModelMatrix ==
    \E m \in Matrices :
        /\ Len(state.model_stack) < MaxStack
        /\ Mutate("model_stack", PushModelMatrixResult(state, m))

\* pop_model_matrix: the Render State it leaves and the value it returns
PopModelMatrixResult(s) ==
    IF Len(s.model_stack) > 1
    THEN [returned |-> Some(s.model_stack[Len(s.model_stack)]),
          state |-> [s EXCEPT !.model_stack = SubSeq(@, 1, Len(@) - 1)]]
    ELSE [returned |-> None, state |-> s]

PopModelMatrix == Mutate("model_stack", PopModelMatrixResult(state).state)

\* with_pipeline: the early return, the assert, then the two assignments
WithPipelineResult(s, ps, pipeline) ==
    IF s.pipeline = pipeline
    THEN [panic |-> FALSE, state |-> s]
    ELSE IF pipeline # None /\ ~HasPipeline(ps, pipeline[1])
    THEN [panic |-> TRUE, state |-> s]
    ELSE [panic |-> FALSE,
          state |-> [s EXCEPT !.break_batching = TRUE, !.pipeline = pipeline]]

WithPipelineOf(h) ==
    LET pipeline == IF h = None THEN None ELSE Some(h[1].id)
        r == WithPipelineResult(state, pipelines, pipeline)
    IN  /\ ~panicked
        /\ Uses("with_pipeline")
        /\ state' = r.state
        /\ drawn' = <<>>
        /\ lastOp' = "other"
        /\ panicked' = r.panic
        /\ UNCHANGED <<pipelines, draw_calls, draw_calls_bindings,
                       draw_calls_count, max_vertices, max_indices,
                       batch_vertex_buffer, batch_index_buffer, gpu,
                       handles, others, frame, pipelines_amount, preprocessed, input, atlas>>

WithPipeline == \E h \in Opt(handles) : WithPipelineOf(h)

----------------------------------------------------------------------------
(* push_geometry *)

\* the closure of the batching decision, for the most recent pending call
StartsNewCall(draw_call, s, pip, nv, ni, maxv, maxi) ==
    \/ draw_call.texture # s.texture
    \/ draw_call.clip # s.clip
    \/ draw_call.viewport # s.viewport
    \/ draw_call.model # Model(s)
    \/ draw_call.pipeline # pip
    \/ draw_call.render_pass # s.render_pass
    \/ draw_call.draw_mode # s.draw_mode
    \/ draw_call.vertices_count >= maxv - nv
    \/ draw_call.indices_count >= maxi - ni
    \/ draw_call.capture # s.capture
    \/ s.break_batching
\* a call that is started at the beginning of the two arrays
StartedCallAtZero(dc, s, pip, uniforms, vstart, istart) ==
    [dc EXCEPT
        !.texture        = s.texture,
        !.uniforms       = uniforms,
        !.vertices_count = 0,
        !.indices_count  = 0,
        !.clip           = s.clip,
        !.viewport       = s.viewport,
        !.model          = Model(s),
        !.pipeline       = pip,
        !.render_pass    = s.render_pass,
        !.capture        = s.capture,
        !.indices_start  = 0,
        !.vertices_start = 0]

\* the assignments to draw_calls[draw_calls_count] when a call is started
StartedCall(dc, s, pip, uniforms, vstart, istart) ==
    [dc EXCEPT
        !.texture        = s.texture,
        !.uniforms       = uniforms,
        !.vertices_count = 0,
        !.indices_count  = 0,
        !.clip           = s.clip,
        !.viewport       = s.viewport,
        !.model          = Model(s),
        !.pipeline       = pip,
        !.render_pass    = s.render_pass,
        !.capture        = s.capture,
        !.indices_start  = istart,
        !.vertices_start = vstart]

\* the effective pipeline of a push
EffectivePipeline(s) ==
    IF s.pipeline # None THEN s.pipeline[1]
    ELSE GetDefaultPipelineBy(s.draw_mode, s.depth_test_enable)

\* a clamp that cuts nothing
ClampKeepsAll(seq, max) == seq

\* the clamp of push_geometry
Clamp(seq, max) == SubSeq(seq, 1, Min(max, Len(seq)))

\* the index written for pushed index x into a call holding count vertices
OffsetIndex(x, count) == U16(x + U16(count))

\* the whole of push_geometry on vertices vs and indices is
PushResult(vs, is) ==
    LET vertices == Clamp(vs, max_vertices)
        indices  == Clamp(is, max_indices)
        pip      == EffectivePipeline(state)
        previous_dc == IF draw_calls_count = 0 THEN None
                       ELSE Some(draw_calls[draw_calls_count])
        new == \/ previous_dc = None
               \/ StartsNewCall(previous_dc[1], state, pip, Len(vertices),
                                Len(indices), max_vertices, max_indices)
        missing == new /\ state.pipeline # None
                       /\ pipelines[state.pipeline[1]] = None
        uniforms == IF state.pipeline = None \/ missing THEN None
                    ELSE Some(pipelines[state.pipeline[1]][1].uniforms_data)
        grown == IF new /\ draw_calls_count >= Len(draw_calls)
                 THEN Append(draw_calls,
                             NewDrawCall(state.texture, Model(state),
                                         state.draw_mode, pip, uniforms,
                                         state.render_pass))
                 ELSE draw_calls
        started == IF new
                   THEN [grown EXCEPT ![draw_calls_count + 1] =
                            StartedCall(@, state, pip, uniforms,
                                        Len(batch_vertex_buffer),
                                        Len(batch_index_buffer))]
                   ELSE grown
        count == IF new THEN draw_calls_count + 1 ELSE draw_calls_count
        dc == started[count]
    IN  IF missing
        THEN [panic |-> TRUE, new |-> new, draw_calls |-> draw_calls,
              count |-> draw_calls_count, state |-> state,
              vertices |-> <<>>, indices |-> <<>>,
              vbuf |-> batch_vertex_buffer, ibuf |-> batch_index_buffer]
        ELSE [panic |-> FALSE, new |-> new,
              draw_calls |-> [started EXCEPT ![count] =
                    [dc EXCEPT
                       !.vertices_count = @ + Len(vertices),
                       !.indices_count  = @ + Len(indices),
                       !.texture        = state.texture]],
              count |-> count,
              state |-> IF new THEN [state EXCEPT !.break_batching = FALSE]
                        ELSE state,
              vertices |-> vertices, indices |-> indices,
              vbuf |-> batch_vertex_buffer \o vertices,
              ibuf |-> batch_index_buffer
                       \o [i \in 1..Len(indices) |->
                             OffsetIndex(indices[i], dc.vertices_count)]]

\* the GPU pipeline object behind a handle id, 0 - 1 for an empty slot
GpuPipeline(ps, id) == IF ps[id] = None THEN 0 - 1 ELSE ps[id][1].pipeline

\* what the caller saw of one push: the geometry and the Render State
FrameEntry(nv, ni, r) ==
    [ passed      |-> <<nv, ni>>,
      vertices    |-> r.vertices,
      texture     |-> state.texture,
      clip        |-> state.clip,
      viewport    |-> state.viewport,
      model       |-> Model(state),
      override    |-> state.pipeline,
      depth_test_enable |-> state.depth_test_enable,
      pipeline    |-> EffectivePipeline(state),
      gpu_pipeline |-> GpuPipeline(pipelines, EffectivePipeline(state)),
      render_pass |-> state.render_pass,
      draw_mode   |-> state.draw_mode,
      capture     |-> state.capture ]

\* the vertices of a push are numbered by their place in the per-frame array
PushedVertices(nv) == [i \in 1..nv |-> Len(batch_vertex_buffer) + i]

Oversize(shape) == shape[1] > max_vertices \/ shape[2] > max_indices

\* push_geometry of a shape on the state as it is
PushGeometryStep(shape) ==
    LET nv == shape[1]
        ni == shape[2]
        r  == PushResult(PushedVertices(nv), ShapeIndices(nv, ni))
    IN  /\ ~panicked
        /\ draw_calls' = r.draw_calls
        /\ draw_calls_count' = r.count
        /\ state' = r.state
        /\ batch_vertex_buffer' = r.vbuf
        /\ batch_index_buffer' = r.ibuf
        /\ frame' = IF r.panic THEN frame
                    ELSE Append(frame, FrameEntry(nv, ni, r))
        /\ drawn' = <<>>
        /\ lastOp' = IF lastOp = "set_uniform" THEN "broken"
                     ELSE IF draw_calls_count = 0 \/ lastOp = "pushes"
                     THEN "pushes" ELSE "push"
        /\ panicked' = r.panic
        /\ UNCHANGED <<pipelines, draw_calls_bindings, max_vertices,
                       max_indices, gpu, handles, others, pipelines_amount,
                       preprocessed, input, atlas>>

PushGeometryOf(shape) ==
    LET r == PushResult(PushedVertices(shape[1]),
                        ShapeIndices(shape[1], shape[2]))
    IN  /\ ~panicked
        /\ IF Oversize(shape) THEN Uses("oversize") ELSE UNCHANGED varied
        /\ Len(r.vbuf) <= MaxBatch
        /\ Len(r.draw_calls) <= MaxDrawCalls
        /\ PushGeometryStep(shape)

PushGeometry == \E shape \in PushShapes : PushGeometryOf(shape)

----------------------------------------------------------------------------
(* draw: the flush *)

\* Vec::resize(n, value)
Resize(seq, n, value) ==
    IF Len(seq) >= n THEN SubSeq(seq, 1, n)
    ELSE seq \o [i \in 1..(n - Len(seq)) |-> value]

\* Rust index at which draw binds the named texture declared at position pos
NamedImageIndex(pos) == 2 + pos

\* the loop over pipeline.textures, from position pos (0-based) on:
\* an index past the end of images is a panic
RECURSIVE BindNamed(_, _, _)
BindNamed(images, p, pos) ==
    IF pos >= Len(p.textures) THEN [panic |-> FALSE, images |-> images]
    ELSE IF p.textures[pos + 1] \in DOMAIN p.textures_data
    THEN IF NamedImageIndex(pos) >= Len(images)
         THEN [panic |-> TRUE, images |-> images]
         ELSE BindNamed([images EXCEPT ![NamedImageIndex(pos) + 1] =
                            p.textures_data[p.textures[pos + 1]]], p, pos + 1)
    ELSE BindNamed(images, p, pos + 1)

\* bindings.images of one call: slot 0, the resize, the named textures
BindImages(images, dc, p) ==
    BindNamed(Resize([images EXCEPT ![1] =
                        IF dc.texture # None THEN dc.texture[1] ELSE White],
                     1 + Len(p.textures), White),
              p, 0)

\* size of the target of a call
TargetSize(dc) ==
    IF dc.render_pass # None THEN PassTextureSize(dc.render_pass[1])
    ELSE ScreenSize

AppliedViewport(dc) ==
    IF dc.viewport # None THEN dc.viewport[1]
    ELSE <<0, 0, TargetSize(dc)[1], TargetSize(dc)[2]>>

\* a scissor with the y of the clip as it is
AppliedScissorNoFlip(dc) ==
    IF dc.clip # None THEN dc.clip[1]
    ELSE <<0, 0, TargetSize(dc)[1], TargetSize(dc)[2]>>

AppliedScissor(dc) ==
    IF dc.clip # None
    THEN LET clip == dc.clip[1]
         IN  <<clip[1], TargetSize(dc)[2] - (clip[2] + clip[4]), clip[3], clip[4]>>
    ELSE <<0, 0, TargetSize(dc)[1], TargetSize(dc)[2]>>

\* the three reserved uniforms written without the overlay of the snapshot
FlushUniformsNoOverlay(p, dc, projection, time) ==
    PipelineSetUniform(
        PipelineSetUniform(
            PipelineSetUniform(p, "Projection", UniformValue(64, projection)),
            "Model", UniformValue(64, dc.model)),
        "_Time", UniformValue(16, time))

\* the overlay of the call's snapshot and the three reserved uniforms
FlushUniforms(p, dc, projection, time) ==
    LET over == IF dc.uniforms = None THEN p
                ELSE [p EXCEPT !.uniforms_data =
                        [i \in 1..Len(@) |->
                            IF i <= Len(dc.uniforms[1]) THEN dc.uniforms[1][i]
                            ELSE @[i]]]
    IN  PipelineSetUniform(
            PipelineSetUniform(
                PipelineSetUniform(over, "Projection",
                                   UniformValue(64, projection)),
                "Model", UniformValue(64, dc.model)),
            "_Time", UniformValue(16, time))

\* an iteration that resets the two starts and leaves the two counts
DrainedStartsOnly(dc) ==
    [dc EXCEPT !.vertices_start = 0, !.indices_start = 0]

\* the four assignments that end an iteration of the loop of draw
Drained(dc) ==
    [dc EXCEPT !.vertices_count = 0, !.indices_count = 0,
               !.vertices_start = 0, !.indices_start = 0]

\* one iteration of the loop of draw, on call i (1-based) of acc.draw_calls
DrawOne(acc, i, projection, time, vbuf, ibuf) ==
    LET dc == acc.draw_calls[i]
        b  == acc.bindings[i]
        slot == acc.pipelines[dc.pipeline]
        p  == slot[1]
        bound == BindImages(b.images, dc, p)
        inside == /\ dc.vertices_start + dc.vertices_count <= Len(vbuf)
                  /\ dc.indices_start + dc.indices_count <= Len(ibuf)
        fits == dc.uniforms = None \/ Len(dc.uniforms[1]) <= Len(p.uniforms_data)
        q == FlushUniforms(p, dc, projection, time)
    IN  IF slot = None \/ ~inside THEN [acc EXCEPT !.panic = TRUE]
        ELSE IF bound.panic \/ ~fits
        THEN [acc EXCEPT !.panic = TRUE, !.bindings[i].images = bound.images]
        ELSE [acc EXCEPT
                !.bindings[i].images = bound.images,
                !.pipelines[dc.pipeline] = Some(q),
                !.drawn = Append(@,
                    [ pipeline |-> p.pipeline,
                      pass     |-> dc.render_pass,
                      images   |-> bound.images,
                      viewport |-> AppliedViewport(dc),
                      scissor  |-> AppliedScissor(dc),
                      uniforms |-> q.uniforms_data,
                      vertices |-> SubSeq(vbuf, dc.vertices_start + 1,
                                          dc.vertices_start + dc.vertices_count),
                      indices  |-> SubSeq(ibuf, dc.indices_start + 1,
                                          dc.indices_start + dc.indices_count),
                      elements |-> dc.indices_count ]),
                !.draw_calls[i] = Drained(dc)]

\* the loop over draw_calls[0..draw_calls_count] zipped with the bindings
RECURSIVE DrawLoop(_, _, _, _, _, _, _)
DrawLoop(acc, i, n, projection, time, vbuf, ibuf) ==
    IF i > n \/ acc.panic THEN acc
    ELSE DrawLoop(DrawOne(acc, i, projection, time, vbuf, ibuf), i + 1, n,
                  projection, time, vbuf, ibuf)

\* the first loop of draw: a buffer pair and a Bindings per new record
RECURSIVE NewBindings(_, _)
NewBindings(k, next) ==
    IF k = 0 THEN <<>>
    ELSE << [ vertex_buffers |-> <<next>>,
              index_buffer   |-> next + 1,
              images         |-> <<White, White>> ] >>
         \o NewBindings(k - 1, next + 2)

Flush ==
    \E projection \in Projections, time \in Times :
        LET k == Len(draw_calls) - Len(draw_calls_bindings)
            bindings == draw_calls_bindings \o NewBindings(k, gpu.next_buffer)
            r == DrawLoop([ panic |-> FALSE, draw_calls |-> draw_calls,
                            bindings |-> bindings, pipelines |-> pipelines,
                            drawn |-> <<>> ],
                          1, Min(draw_calls_count, Len(bindings)),
                          projection, time,
                          batch_vertex_buffer, batch_index_buffer)
        IN  /\ ~panicked
            /\ gpu' = [gpu EXCEPT
                         !.next_buffer = @ + 2 * k,
                         !.buffers = @ \cup
                            { gpu.next_buffer + j : j \in 0..(2 * k - 1) }]
            /\ draw_calls_bindings' = r.bindings
            /\ draw_calls' = r.draw_calls
            /\ pipelines' = r.pipelines
            /\ drawn' = r.drawn
            /\ panicked' = r.panic
            /\ draw_calls_count' = IF r.panic THEN draw_calls_count ELSE 0
            /\ batch_index_buffer' = IF r.panic THEN batch_index_buffer ELSE <<>>
            /\ batch_vertex_buffer' = IF r.panic THEN batch_vertex_buffer ELSE <<>>
            /\ frame' = IF r.panic THEN frame ELSE <<>>
            /\ lastOp' = IF lastOp \in {"flush", "reflush"} THEN "reflush"
                         ELSE "flush"
            /\ UNCHANGED <<state, max_vertices, max_indices, handles, others,
                           pipelines_amount, varied, preprocessed, input, atlas>>

----------------------------------------------------------------------------
(* pipelines: make_pipeline, delete_pipeline and the setters *)

\* a make_pipeline that looks for the reserved name after it stored the record
MakePipelineChecksNameLate(ps, decl, compiles, gpu_pipeline) ==
    IF ~compiles
    THEN [panic |-> FALSE, ok |-> FALSE, pipelines |-> ps, created |-> FALSE]
    ELSE IF FreeSlots(ps) = {}
    THEN [panic |-> TRUE, ok |-> FALSE, pipelines |-> ps, created |-> TRUE]
    ELSE [panic |-> \E i \in 1..Len(decl.textures) : decl.textures[i] = "Texture",
          ok |-> \A i \in 1..Len(decl.textures) : decl.textures[i] # "Texture",
          created |-> TRUE,
          id |-> FirstFreeSlot(ps),
          pipelines |-> [ps EXCEPT ![FirstFreeSlot(ps)] =
              Some(NewPipelineExt(gpu_pipeline, decl.uniforms, decl.textures))]]

\* Renderer::make_pipeline then PipelineStorage::make_pipeline:
\* the reserved name, the shader, the GPU pipeline, the first free slot
MakePipelineResult(ps, decl, compiles, gpu_pipeline) ==
    IF \E i \in 1..Len(decl.textures) : decl.textures[i] = "Texture"
    THEN [panic |-> TRUE, ok |-> FALSE, pipelines |-> ps, created |-> FALSE]
    ELSE IF ~compiles
    THEN [panic |-> FALSE, ok |-> FALSE, pipelines |-> ps, created |-> FALSE]
    ELSE IF FreeSlots(ps) = {}
    THEN [panic |-> TRUE, ok |-> FALSE, pipelines |-> ps, created |-> TRUE]
    ELSE [panic |-> FALSE, ok |-> TRUE, created |-> TRUE,
          id |-> FirstFreeSlot(ps),
          pipelines |-> [ps EXCEPT ![FirstFreeSlot(ps)] =
              Some(NewPipelineExt(gpu_pipeline, decl.uniforms, decl.textures))]]

ReservedDecl == [uniforms |-> <<>>, textures |-> <<"Texture">>]

\* make_pipeline(decl) on a shader source that compiles or does not
MakePipelineOf(decl, compiles) ==
    LET r == MakePipelineResult(pipelines, decl, compiles, gpu.next_pipeline)
    IN  /\ ~panicked
        /\ pipelines' = r.pipelines
        /\ pipelines_amount' = IF r.ok THEN pipelines_amount + 1
                               ELSE pipelines_amount
        /\ UNCHANGED <<preprocessed, input, atlas>>
        /\ gpu' = IF r.created THEN [gpu EXCEPT !.next_pipeline = @ + 1]
                  ELSE gpu
        /\ handles' = IF r.ok
                      THEN handles \cup
                           {[id |-> r.id, made_by |-> "this",
                             pipeline |-> gpu.next_pipeline]}
                      ELSE handles
        /\ drawn' = <<>>
        /\ lastOp' = "other"
        /\ panicked' = r.panic
        /\ UNCHANGED <<draw_calls, draw_calls_bindings, draw_calls_count,
                       state, max_vertices, max_indices,
                       batch_vertex_buffer, batch_index_buffer, others,
                       frame>>

MakePipeline ==
    \E decl \in PipelineDecls \cup {ReservedDecl}, compiles \in BOOLEAN :
        /\ Uses("make_pipeline")
        /\ gpu.next_pipeline < 4 + MaxMakes + MaxForeign
        /\ Cardinality({h \in handles : h.made_by = "this"}) < MaxMakes
        /\ MakePipelineOf(decl, compiles)

\* make_pipeline on a second renderer instance that shares the backend
MakePipelineOther ==
    LET free == { i \in 0..(MAX_PIPELINES - 1) : i \notin others }
        id == CHOOSE i \in free : \A j \in free : i <= j
    IN  /\ ~panicked
        /\ Uses("other_renderer")
        /\ Cardinality({h \in handles : h.made_by = "other"}) < MaxForeign
        /\ others' = others \cup {id}
        /\ handles' = handles \cup {[id |-> id, made_by |-> "other",
                                     pipeline |-> gpu.next_pipeline]}
        /\ gpu' = [gpu EXCEPT !.next_pipeline = @ + 1]
        /\ Quiet("other")
        /\ UNCHANGED <<pipelines, draw_calls, draw_calls_bindings,
                       draw_calls_count, state, max_vertices, max_indices,
                       batch_vertex_buffer, batch_index_buffer, frame,
                       pipelines_amount, preprocessed, input, atlas>>

\* a delete that counts the slots from the first user slot
DeletePipelineUserSlot(ps, id) == [ps EXCEPT ![id - 4] = None]

\* a delete that empties the slot and every slot after it
DeletePipelineAndAfter(ps, id) ==
    [i \in DOMAIN ps |-> IF i >= id THEN None ELSE ps[i]]

DeletePipelineResult(ps, id) == [ps EXCEPT ![id] = None]

DeletePipelineOf(h) ==
    /\ ~panicked
    /\ pipelines' = DeletePipelineResult(pipelines, h.id)
    /\ drawn' = <<>>
    /\ lastOp' = "other"
    /\ panicked' = FALSE
    /\ UNCHANGED <<draw_calls, draw_calls_bindings, draw_calls_count, state,
                   max_vertices, max_indices, batch_vertex_buffer,
                   batch_index_buffer, gpu, handles, others, frame,
                   pipelines_amount, preprocessed, input, atlas>>

DeletePipeline ==
    \E h \in handles : Uses("delete_pipeline") /\ DeletePipelineOf(h)

\* PipelineExt::set_uniform_array: the name, then the total length
PipelineSetUniformArray(p, name, value) ==
    LET i == UniformIndex(p, name)
    IN  IF i = 0 THEN p
        ELSE IF value.size # p.uniforms[i].byte_size THEN p
        ELSE [p EXCEPT !.uniforms_data[i] = value.v]

\* the two uniform setters of the renderer: the flag first, then the lookup;
\* written is the record the pipeline's own setter leaves, None for no record
UniformSetter(h, written) ==
    /\ ~panicked
    /\ Uses("set_uniform")
    /\ state' = [state EXCEPT !.break_batching = TRUE]
    /\ pipelines' = IF written = None THEN pipelines
                    ELSE [pipelines EXCEPT ![h.id] = written]
    /\ panicked' = (written = None)
    /\ drawn' = <<>>
    /\ lastOp' = "set_uniform"
    /\ UNCHANGED <<draw_calls, draw_calls_bindings, draw_calls_count,
                   max_vertices, max_indices, batch_vertex_buffer,
                   batch_index_buffer, gpu, handles, others, frame,
                   pipelines_amount, preprocessed, input, atlas>>

SetUniformOf(h) ==
    \E in \in UniformInputs :
        UniformSetter(h, IF pipelines[h.id] = None THEN None
                         ELSE Some(PipelineSetUniform(pipelines[h.id][1],
                                                      in[1], in[2])))

SetUniform == \E h \in handles : SetUniformOf(h)

SetUniformArrayOf(h) ==
    \E in \in UniformInputs :
        UniformSetter(h, IF pipelines[h.id] = None THEN None
                         ELSE Some(PipelineSetUniformArray(pipelines[h.id][1],
                                                           in[1], in[2])))

SetUniformArray == \E h \in handles : SetUniformArrayOf(h)

\* a set_texture that keeps the texture a name already has
SetTextureKeepsFirst(ps, id, name, texture) ==
    IF ps[id] = None THEN [panic |-> TRUE, pipelines |-> ps]
    ELSE IF \A i \in 1..Len(ps[id][1].textures) : ps[id][1].textures[i] # name
    THEN [panic |-> TRUE, pipelines |-> ps]
    ELSE [panic |-> FALSE,
          pipelines |-> [ps EXCEPT ![id] = Some([ps[id][1] EXCEPT
              !.textures_data =
                  [n \in DOMAIN @ \cup {name} |->
                      IF n \in DOMAIN @ THEN @[n] ELSE texture]])]]

\* set_texture: the lookup, the declared names, the map entry
SetTextureResult(ps, id, name, texture) ==
    IF ps[id] = None THEN [panic |-> TRUE, pipelines |-> ps]
    ELSE IF \A i \in 1..Len(ps[id][1].textures) : ps[id][1].textures[i] # name
    THEN [panic |-> TRUE, pipelines |-> ps]
    ELSE [panic |-> FALSE,
          pipelines |-> [ps EXCEPT ![id] = Some([ps[id][1] EXCEPT
              !.textures_data =
                  [n \in DOMAIN @ \cup {name} |->
                      IF n = name THEN texture ELSE @[n]]])]]

SetTextureOf(h, name, texture) ==
    LET r == SetTextureResult(pipelines, h.id, name, texture)
    IN  /\ ~panicked
        /\ Uses(IF texture \in Textures /\ name \in DeclaredTextures
                THEN "set_texture" ELSE "rebind")
        /\ pipelines' = r.pipelines
        /\ panicked' = r.panic
        /\ drawn' = <<>>
        /\ lastOp' = "set_texture"
        /\ UNCHANGED <<draw_calls, draw_calls_bindings, draw_calls_count,
                       state, max_vertices, max_indices,
                       batch_vertex_buffer, batch_index_buffer, gpu,
                       handles, others, frame, pipelines_amount, preprocessed, input, atlas>>

SetTexture ==
    \E h \in handles, name \in TextureNames, texture \in TextureValues :
        SetTextureOf(h, name, texture)

----------------------------------------------------------------------------
(* clear, clear_draw_calls, reset, update_drawcall_capacity *)

\* begin_pass / begin_default_pass with the clear action, then end_render_pass
ClearPass(render_pass) == [action |-> "clear", pass |-> render_pass]

\* a clear that leaves the pending draw calls
ClearKeepsCalls ==
    /\ ~panicked
    /\ Uses("frame")
    /\ drawn' = <<ClearPass(state.render_pass)>>
    /\ lastOp' = "other"
    /\ panicked' = FALSE
    /\ UNCHANGED <<pipelines, draw_calls, draw_calls_bindings, state,
                   max_vertices, max_indices, batch_vertex_buffer,
                   batch_index_buffer, gpu, handles, others, pipelines_amount,
                   draw_calls_count, frame, preprocessed, input, atlas>>

Clear ==
    /\ ~panicked
    /\ Uses("frame")
    /\ drawn' = <<ClearPass(state.render_pass)>>
    /\ draw_calls_count' = 0
    /\ frame' = <<>>
    /\ lastOp' = "other"
    /\ panicked' = FALSE
    /\ UNCHANGED <<pipelines, draw_calls, draw_calls_bindings, state,
                   max_vertices, max_indices, batch_vertex_buffer,
                   batch_index_buffer, gpu, handles, others, pipelines_amount, preprocessed, input, atlas>>

ClearDrawCalls ==
    /\ ~panicked
    /\ Uses("frame")
    /\ draw_calls_count' = 0
    /\ frame' = <<>>
    /\ Quiet("other")
    /\ UNCHANGED <<pipelines, draw_calls, draw_calls_bindings, state,
                   max_vertices, max_indices, batch_vertex_buffer,
                   batch_index_buffer, gpu, handles, others, pipelines_amount, preprocessed, input, atlas>>

\* the three assignments of reset to the Render State
ResetState(s) ==
    [s EXCEPT !.clip = None, !.texture = None, !.model_stack = <<IDENTITY>>]

Reset ==
    /\ ~panicked
    /\ Uses("frame")
    /\ state' = ResetState(state)
    /\ draw_calls_count' = 0
    /\ frame' = <<>>
    /\ Quiet("other")
    /\ UNCHANGED <<pipelines, draw_calls, draw_calls_bindings, max_vertices,
                   max_indices, batch_vertex_buffer, batch_index_buffer, gpu,
                   handles, others, pipelines_amount, preprocessed, input, atlas>>

\* a loop that gives every binding the same new pair of buffers
RECURSIVE RebuiltBindingsShared(_, _)
RebuiltBindingsShared(k, next) ==
    IF k = 0 THEN <<>>
    ELSE << [ vertex_buffers |-> <<next>>,
              index_buffer   |-> next + 1,
              images         |-> <<White>> ] >>
         \o RebuiltBindingsShared(k - 1, next)

\* the loop over the bindings: both buffers deleted, a new pair, one image
RECURSIVE RebuiltBindings(_, _)
RebuiltBindings(k, next) ==
    IF k = 0 THEN <<>>
    ELSE << [ vertex_buffers |-> <<next>>,
              index_buffer   |-> next + 1,
              images         |-> <<White>> ] >>
         \o RebuiltBindings(k - 1, next + 2)

\* update_drawcall_capacity(cap[1], cap[2]) on the state as it is
UpdateDrawcallCapacityTo(cap) ==
    LET k == Len(draw_calls_bindings)
    IN  /\ ~panicked
        /\ max_vertices' = cap[1]
        /\ max_indices' = cap[2]
        /\ draw_calls_count' = 0
        /\ draw_calls' = [i \in 1..Len(draw_calls) |->
                            [draw_calls[i] EXCEPT !.indices_start = 0,
                                                  !.vertices_start = 0]]
        /\ draw_calls_bindings' = RebuiltBindings(k, gpu.next_buffer)
        /\ gpu' = [gpu EXCEPT
                     !.resizes = @ + 1,
                     !.next_buffer = @ + 2 * k,
                     !.buffers =
                        { gpu.next_buffer + j : j \in 0..(2 * k - 1) }
                        \cup (@ \ UNION { {draw_calls_bindings[i].index_buffer}
                                \cup { draw_calls_bindings[i].vertex_buffers[j] :
                                       j \in 1..Len(draw_calls_bindings[i].vertex_buffers) } :
                                i \in 1..k })]
        /\ frame' = <<>>
        /\ Quiet("other")
        /\ UNCHANGED <<pipelines, state, batch_vertex_buffer,
                       batch_index_buffer, handles, others,
                       pipelines_amount, preprocessed, input, atlas>>

UpdateDrawcallCapacity ==
    \E cap \in Capacities :
        /\ Uses("capacity")
        /\ gpu.resizes < MaxResizes
        /\ UpdateDrawcallCapacityTo(cap)

----------------------------------------------------------------------------
Next ==
    \/ WithCapture
    \/ WithRenderPass
    \/ WithDepthTest
    \/ WithTexture
    \/ WithScissor
    \/ WithViewport
    \/ WithDrawMode
    \/ PushModelMatrix
    \/ PopModelMatrix
    \/ WithPipeline
    \/ PushGeometry
    \/ Flush
    \/ MakePipeline
    \/ MakePipelineOther
    \/ DeletePipeline
    \/ SetUniform
    \/ SetUniformArray
    \/ SetTexture
    \/ Clear
    \/ ClearDrawCalls
    \/ Reset
    \/ UpdateDrawcallCapacity

Spec == Init /\ [][Next]_vars

----------------------------------------------------------------------------
(* The index offset with capacities past the 16-bit range: IndexSpec *)

\* number of pushes of a run and number of vertices past 2^16 in the array
MaxWidePushes == 3
MaxWidePast == 4

\* capacities update_drawcall_capacity is given: usize values around 2^16
WideCapacities ==
    { <<65536 - 2, MaxIndicesInit>>, <<65536 + MaxWidePast, MaxIndicesInit>> }

\* the shapes pushed: two small ones and two that fill the 16-bit range
WideShapes == { <<1, 1>>, <<2, 2>>, <<65536 - 1, 1>>, <<65536, 1>> }

\* update_drawcall_capacity with a wide capacity, before the first push
WideCapacity ==
    \E cap \in WideCapacities :
        /\ gpu.resizes < MaxResizes
        /\ draw_calls = <<>>
        /\ UNCHANGED varied
        /\ UpdateDrawcallCapacityTo(cap)

WidePush ==
    \E shape \in WideShapes :
        /\ Len(frame) < MaxWidePushes
        /\ Len(batch_vertex_buffer) + shape[1] <= 65536 + MaxWidePast
        /\ UNCHANGED varied
        /\ PushGeometryStep(shape)

IndexNext == WideCapacity \/ WidePush

IndexSpec == Init /\ [][IndexNext]_vars

----------------------------------------------------------------------------
(* The model-matrix stack to a greater depth: StackSpec *)

\* depth of the model-matrix stack
MaxDepth == 7

\* two matrices that do not commute
StackMatrices == {2, 4}

\* what the operations on the stack leave alone
StackOnly ==
    UNCHANGED <<pipelines, draw_calls, draw_calls_bindings, max_vertices,
                max_indices, batch_vertex_buffer, batch_index_buffer, gpu,
                drawn, handles, others, frame, pipelines_amount, varied,
                preprocessed, input, atlas,
                lastOp, panicked>>

StackPush ==
    \E m \in StackMatrices :
        /\ Len(state.model_stack) < MaxDepth
        /\ state' = PushModelMatrixResult(state, m)
        /\ UNCHANGED draw_calls_count
        /\ StackOnly

StackPop ==
    /\ state' = PopModelMatrixResult(state).state
    /\ UNCHANGED draw_calls_count
    /\ StackOnly

StackReset ==
    /\ state' = ResetState(state)
    /\ draw_calls_count' = 0
    /\ StackOnly

StackNext == StackPush \/ StackPop \/ StackReset

StackSpec == Init /\ [][StackNext]_vars

----------------------------------------------------------------------------
(* The registry up to its capacity: RegistrySpec *)

\* the pipelines the caller makes, one more than the slots left after the
\* built-ins
MaxRegistryMakes == 29

\* the handles the caller keeps after their pipeline was deleted
MaxStale == 1

\* the handles whose pipeline is not the one in their slot any more
Stale == { h \in handles : pipelines[h.id] = None
                              \/ pipelines[h.id][1].pipeline # h.pipeline }

RegistryMake ==
    \E decl \in PipelineDecls \cup {ReservedDecl}, compiles \in BOOLEAN :
        /\ gpu.next_pipeline < 4 + MaxRegistryMakes
        /\ MakePipelineOf(decl, compiles)
        /\ UNCHANGED varied

RegistryDelete ==
    \E h \in handles :
        /\ Cardinality(Stale \cup {h}) <= MaxStale
        /\ DeletePipelineOf(h)
        /\ UNCHANGED varied

RegistryNext == RegistryMake \/ RegistryDelete

RegistrySpec == Init /\ [][RegistryNext]_vars

----------------------------------------------------------------------------
(* PipelineExt with its uniform buffer byte by byte: UniformSpec *)

\* pipelines made in UniformSpec
MaxByteMakes == 1

\* the uniforms a caller declares: every supported width, an array, and a
\* name declared twice
ByteDecls ==
    { << UniformDesc("F1", 4, 1), UniformDesc("F2", 8, 1),
         UniformDesc("F3", 12, 1), UniformDesc("F4", 16, 1),
         UniformDesc("M", 64, 1), UniformDesc("Arr", 8, 2) >>,
      << UniformDesc("Arr", 4, 3), UniformDesc("F1", 4, 1),
         UniformDesc("F1", 8, 1) >> }

ByteNames == {"F1", "F2", "F3", "F4", "M", "Arr", "_Time", "V"}

\* size_of::<T>() of a value, or the length of to_bytes() of a slice
ByteSizes == {2, 4, 8, 12, 16, 64}

\* the bytes of a value, told apart by their place
ValueBytes(size, v) == [k \in 1..size |-> (v + k) % 256]

ByteValues ==
    { ValueBytes(size, 7) : size \in ByteSizes }
        \cup { ValueBytes(4, 100), ValueBytes(64, 100) }

\* max_offset: the offset the scan ends at
MaxOffset(uniforms) ==
    IF uniforms = <<>> THEN 0
    ELSE uniforms[Len(uniforms)].byte_offset
           + uniforms[Len(uniforms)].byte_size

\* the PipelineExt that make_pipeline stores, uniforms_data as vec![0; max_offset]
NewPipelineBytes(gpu_pipeline, uniforms, textures) ==
    LET ext == NewPipelineExt(gpu_pipeline, uniforms, textures)
    IN  [ext EXCEPT !.uniforms_data = ZeroBytes(MaxOffset(ext.uniforms))]

\* a write that shifts every byte by one place
WriteBytesOneOff(data, byte_offset, bytes) ==
    [k \in 1..Len(data) |->
        IF k > byte_offset + 1 /\ k <= byte_offset + 1 + Len(bytes)
        THEN bytes[k - byte_offset - 1] ELSE data[k]]

\* uniforms_data[byte_offset + i] = bytes[i] for every i
WriteBytes(data, byte_offset, bytes) ==
    [k \in 1..Len(data) |->
        IF k > byte_offset /\ k <= byte_offset + Len(bytes)
        THEN bytes[k - byte_offset] ELSE data[k]]

\* a set_uniform without the test of the value's size
SetUniformBytesUnchecked(p, name, value) ==
    LET i == UniformIndex(p, name)
    IN  IF i = 0 THEN [panic |-> FALSE, p |-> p]
        ELSE [panic |-> FALSE,
              p |-> [p EXCEPT !.uniforms_data =
                        WriteBytes(@, p.uniforms[i].byte_offset, value)]]

\* PipelineExt::set_uniform on a value of Len(value) bytes; an index past the
\* end of uniforms_data is a panic
SetUniformBytes(p, name, value) ==
    LET i == UniformIndex(p, name)
        u == p.uniforms[i]
    IN  IF i = 0 THEN [panic |-> FALSE, p |-> p]
        ELSE IF Len(value) # u.uniform_type THEN [panic |-> FALSE, p |-> p]
        ELSE IF u.uniform_type # u.byte_size THEN [panic |-> FALSE, p |-> p]
        ELSE IF u.uniform_type \notin {4, 8, 12, 16, 64}
        THEN [panic |-> FALSE, p |-> p]
        ELSE IF u.byte_offset + u.uniform_type > Len(p.uniforms_data)
        THEN [panic |-> TRUE, p |-> p]
        ELSE [panic |-> FALSE,
              p |-> [p EXCEPT !.uniforms_data =
                        WriteBytes(@, u.byte_offset, value)]]

\* PipelineExt::set_uniform_array on the bytes data of a slice
SetUniformArrayBytes(p, name, data) ==
    LET i == UniformIndex(p, name)
        u == p.uniforms[i]
    IN  IF i = 0 THEN [panic |-> FALSE, p |-> p]
        ELSE IF Len(data) # u.byte_size THEN [panic |-> FALSE, p |-> p]
        ELSE IF u.byte_size + u.byte_offset > Len(p.uniforms_data)
        THEN [panic |-> TRUE, p |-> p]
        ELSE [panic |-> FALSE,
              p |-> [p EXCEPT !.uniforms_data =
                        WriteBytes(@, u.byte_offset, data)]]

\* the registry after PipelineStorage::new
BuiltinPipelinesBytes ==
    [ i \in 0..(MAX_PIPELINES - 1) |->
        IF i < 4 THEN Some(NewPipelineBytes(i, <<>>, <<>>)) ELSE None ]

UniformInit ==
    /\ pipelines = BuiltinPipelinesBytes
    /\ draw_calls = <<>>
    /\ draw_calls_bindings = <<>>
    /\ draw_calls_count = 0
    /\ state = InitState
    /\ max_vertices = MaxVerticesInit
    /\ max_indices = MaxIndicesInit
    /\ batch_vertex_buffer = <<>>
    /\ batch_index_buffer = <<>>
    /\ gpu = [next_buffer |-> 0, buffers |-> {}, next_pipeline |-> 4,
              resizes |-> 0]
    /\ drawn = <<>>
    /\ handles = {}
    /\ others = {0, 1, 2, 3}
    /\ frame = <<>>
    /\ pipelines_amount = 4
    /\ preprocessed = NotPreprocessed
    /\ input = NewInputState(FALSE)
    /\ atlas = NewAtlas
    /\ varied = {}
    /\ lastOp = "other"
    /\ panicked = FALSE

\* what the operations on the registry leave alone
RegistryOnly ==
    UNCHANGED <<draw_calls, draw_calls_bindings, draw_calls_count, state,
                max_vertices, max_indices, batch_vertex_buffer,
                batch_index_buffer, drawn, others, frame, varied>>

\* PipelineStorage::make_pipeline with the uniforms decl and no textures
MakePipelineBytes ==
    \E decl \in ByteDecls :
        /\ ~panicked
        /\ Cardinality(handles) < MaxByteMakes
        /\ pipelines' = [pipelines EXCEPT ![FirstFreeSlot(pipelines)] =
                Some(NewPipelineBytes(gpu.next_pipeline, decl, <<>>))]
        /\ pipelines_amount' = pipelines_amount + 1
        /\ UNCHANGED <<preprocessed, input, atlas>>
        /\ gpu' = [gpu EXCEPT !.next_pipeline = @ + 1]
        /\ handles' = handles \cup {[id |-> FirstFreeSlot(pipelines),
                                     made_by |-> "this",
                                     pipeline |-> gpu.next_pipeline]}
        /\ panicked' = FALSE
        /\ lastOp' = "other"
        /\ RegistryOnly

\* one call of a setter of PipelineExt on the pipeline of slot id
SetBytes(op, id, r) ==
    /\ ~panicked
    /\ pipelines[id] # None
    /\ lastOp' = op
    /\ panicked' = r.panic
    /\ pipelines' = [pipelines EXCEPT ![id] = Some(r.p)]
    /\ UNCHANGED <<gpu, handles, pipelines_amount, preprocessed, input, atlas>>
    /\ RegistryOnly

SetUniformBytesOf(id, name, value) ==
    SetBytes("set_uniform", id,
             SetUniformBytes(pipelines[id][1], name, value))

SetUniformBytesStep ==
    \E h \in handles, name \in ByteNames, value \in ByteValues :
        SetUniformBytesOf(h.id, name, value)

SetUniformArrayBytesOf(id, name, data) ==
    SetBytes("set_uniform_array", id,
             SetUniformArrayBytes(pipelines[id][1], name, data))

SetUniformArrayBytesStep ==
    \E h \in handles, name \in ByteNames, data \in ByteValues :
        SetUniformArrayBytesOf(h.id, name, data)

UniformNext ==
    \/ MakePipelineBytes
    \/ SetUniformBytesStep
    \/ SetUniformArrayBytesStep

UniformSpec == UniformInit /\ [][UniformNext]_vars

----------------------------------------------------------------------------
(* preprocess_shader of src/graphics/material.rs: PreprocessSpec.  A string
   is the sequence of its characters. *)

\* number of pieces a source is put together from
MaxPieces == 3

\* the literals "#include", ' ' and "\"" of preprocess_shader
IncludeWord == <<"#", "i", "n", "c", "l", "u", "d", "e">>
Space == " "
Quote == "\""

\* a piece of text that is no directive, and an include directive with
\* the given number of spaces before the quoted name
Text(c) == [include |-> FALSE, name |-> <<>>, chars |-> <<c>>]
Directive(name, spaces) ==
    [include |-> TRUE, name |-> <<name>>,
     chars |-> IncludeWord \o [k \in 1..spaces |-> Space]
                   \o <<Quote, name, Quote>>]

Pieces == {Text("x"), Text("#"), Directive("a", 1), Directive("b", 2)}

\* PreprocessorConfig::includes: pairs of a file name and its content; one
\* content is shorter and one is longer than the directive that names it
ShortContent == <<"1">>
LongContent ==
    <<"l", "o", "n", "g", "e", "r", " ", "t", "h", "a", "n", " ", "i", "t">>
Configs == { << <<(<<"a">>), ShortContent>>, <<(<<"b">>), LongContent>> >>,
             << <<(<<"a">>), LongContent>>, <<(<<"b">>), ShortContent>> >> }

RECURSIVE Flatten(_)
\* the source text of a sequence of pieces
Flatten(pieces) ==
    IF pieces = <<>> THEN <<>>
    ELSE Head(pieces).chars \o Flatten(Tail(pieces))

\* the inner loop of find at position i from target index j on: "match",
\* "differ", or "panic" as data[i + j] is read past the end of data
RECURSIVE Matches(_, _, _, _)
Matches(data, i, target, j) ==
    IF j >= Len(target) THEN "match"
    ELSE IF i + j >= Len(data) THEN "panic"
    ELSE IF data[i + j + 1] # target[j + 1] THEN "differ"
    ELSE Matches(data, i, target, j + 1)

\* find: whether target was found, and the position n it leaves
RECURSIVE Find(_, _, _)
Find(data, n, target) ==
    IF n >= Len(data) THEN [found |-> FALSE, n |-> n, panic |-> FALSE]
    ELSE LET m == Matches(data, n, target, 0)
         IN  IF m = "match" THEN [found |-> TRUE, n |-> n, panic |-> FALSE]
             ELSE IF m = "panic"
             THEN [found |-> FALSE, n |-> n, panic |-> TRUE]
             ELSE Find(data, n + 1, target)

\* skip_character: the position after the run of target at n
RECURSIVE SkipCharacter(_, _, _)
SkipCharacter(data, n, target) ==
    IF n < Len(data) /\ data[n + 1] = target
    THEN SkipCharacter(data, n + 1, target)
    ELSE n

\* the entry of the includes list found for a file name, if any
RECURSIVE IncludeContent(_, _)
IncludeContent(includes, filename) ==
    IF includes = <<>> THEN None
    ELSE IF Head(includes)[1] = filename THEN Some(Head(includes)[2])
    ELSE IncludeContent(Tail(includes), filename)

\* Vec::splice of the range from..to by content
Splice(res, from, to, content) ==
    SubSeq(res, 1, from) \o content \o SubSeq(res, to + 1, Len(res))

PreprocessPanic == [panic |-> TRUE, text |-> <<>>]

\* the while loop of preprocess_shader from position i on
RECURSIVE PreprocessFrom(_, _, _)
PreprocessFrom(res, i, includes) ==
    LET f == Find(res, i, IncludeWord)
        directive_start_ix == f.n
        quote_ix == SkipCharacter(res, directive_start_ix + Len(IncludeWord),
                                  Space)
        filename_start_ix == quote_ix + 1
        filename_end_ix == Find(res, filename_start_ix, <<Quote>>).n
        filename == SubSeq(res, filename_start_ix + 1, filename_end_ix)
        include_content == IncludeContent(includes, filename)
    IN  IF f.panic THEN PreprocessPanic
        ELSE IF ~f.found THEN [panic |-> FALSE, text |-> res]
        ELSE IF quote_ix >= Len(res) \/ res[quote_ix + 1] # Quote
        THEN PreprocessPanic
        ELSE IF include_content = None THEN PreprocessPanic
        ELSE IF filename_end_ix + 1 > Len(res) THEN PreprocessPanic
        ELSE PreprocessFrom(Splice(res, directive_start_ix,
                                   filename_end_ix + 1, include_content[1]),
                            filename_end_ix, includes)

PreprocessShader(source, includes) == PreprocessFrom(source, 0, includes)

\* a source of up to MaxPieces pieces and a config, not yet preprocessed
PreprocessInit ==
    /\ pipelines = BuiltinPipelines
    /\ draw_calls = <<>>
    /\ draw_calls_bindings = <<>>
    /\ draw_calls_count = 0
    /\ state = InitState
    /\ max_vertices = MaxVerticesInit
    /\ max_indices = MaxIndicesInit
    /\ batch_vertex_buffer = <<>>
    /\ batch_index_buffer = <<>>
    /\ gpu = [next_buffer |-> 0, buffers |-> {}, next_pipeline |-> 4,
              resizes |-> 0]
    /\ drawn = <<>>
    /\ handles = {}
    /\ others = {0, 1, 2, 3}
    /\ frame = <<>>
    /\ pipelines_amount = 4
    /\ \E n \in 0..MaxPieces : \E pieces \in [1..n -> Pieces] :
        \E includes \in Configs :
            preprocessed = [pieces |-> pieces, includes |-> includes,
                            result |-> None]
    /\ input = NewInputState(FALSE)
    /\ atlas = NewAtlas
    /\ varied = {}
    /\ lastOp = "other"
    /\ panicked = FALSE

\* preprocess_shader(source, config)
Preprocess ==
    LET r == PreprocessShader(Flatten(preprocessed.pieces),
                              preprocessed.includes)
    IN  /\ preprocessed.result = None
        /\ preprocessed' = [preprocessed EXCEPT !.result = Some(r)]
        /\ panicked' = r.panic
        /\ UNCHANGED <<pipelines, draw_calls, draw_calls_bindings,
                       draw_calls_count, state, max_vertices, max_indices,
                       batch_vertex_buffer, batch_index_buffer, gpu, drawn,
                       handles, others, frame, pipelines_amount, varied,
                       lastOp, input, atlas>>

PreprocessNext == Preprocess

PreprocessSpec == PreprocessInit /\ [][PreprocessNext]_vars

----------------------------------------------------------------------------
(* InputState of src/input.rs: InputSpec, and TouchSpec for a caller that
   sends touch events only *)

Keys == {"A", "B"}
Buttons == {"Left", "Right"}
TouchIds == {1, 2}
TouchPhases == {"Started", "Stationary", "Moved", "Ended", "Cancelled"}
\* the position an event carries, and the wheel movement of a wheel event
Positions == { <<1, 1>> }
Wheels == { <<0, 1>> }

\* a cleanup that keeps the ended and cancelled touches
PostFrameCleanupKeepsEnded(s) ==
    [s EXCEPT !.mouse_wheel = <<0, 0>>,
              !.keys_pressed = {}, !.keys_released = {},
              !.mouse_pressed = {}, !.mouse_released = {},
              !.touches =
                 { IF t.phase \in {"Started", "Moved"}
                   THEN [t EXCEPT !.phase = "Stationary"] ELSE t : t \in @ }]

\* post_frame_cleanup: the wheel, the four per-frame sets, the touches kept
\* and their phases
PostFrameCleanupResult(s) ==
    [s EXCEPT !.mouse_wheel = <<0, 0>>,
              !.keys_pressed = {}, !.keys_released = {},
              !.mouse_pressed = {}, !.mouse_released = {},
              !.touches =
                 { IF t.phase \in {"Started", "Moved"}
                   THEN [t EXCEPT !.phase = "Stationary"] ELSE t :
                   t \in { u \in @ : u.phase \notin {"Ended", "Cancelled"} } }]

MouseMotionResult(s, pos) == [s EXCEPT !.mouse_position = pos]

MouseWheelResult(s, wheel) == [s EXCEPT !.mouse_wheel = wheel]

MouseButtonDownResult(s, btn, pos, cursor_grabbed) ==
    [s EXCEPT !.mouse_down = @ \cup {btn},
              !.mouse_pressed = @ \cup {btn},
              !.mouse_position = IF cursor_grabbed THEN @ ELSE pos]

MouseButtonUpResult(s, btn, pos, cursor_grabbed) ==
    [s EXCEPT !.mouse_down = @ \ {btn},
              !.mouse_released = @ \cup {btn},
              !.mouse_position = IF cursor_grabbed THEN @ ELSE pos]

\* HashMap::insert: the entry of the id is replaced
TouchInsert(touches, touch) ==
    { t \in touches : t.id # touch.id } \cup {touch}

\* update_touch_event: the insert, then the simulated mouse
TouchEventResult(s, phase, id, pos, cursor_grabbed) ==
    LET t == [s EXCEPT !.touches =
                 TouchInsert(@, [id |-> id, phase |-> phase,
                                 position |-> pos])]
    IN  IF ~s.simulate_mouse_with_touch THEN t
        ELSE IF phase = "Started"
        THEN MouseButtonDownResult(t, "Left", pos, cursor_grabbed)
        ELSE IF phase = "Ended"
        THEN MouseButtonUpResult(t, "Left", pos, cursor_grabbed)
        ELSE IF phase = "Moved" THEN MouseMotionResult(t, pos)
        ELSE t

\* a key-down event that counts a repeated key as pressed
KeyDownCountsRepeat(s, keycode, repeat) ==
    [s EXCEPT !.keys_down = @ \cup {keycode},
              !.keys_pressed = @ \cup {keycode}]

KeyDownResult(s, keycode, repeat) ==
    [s EXCEPT !.keys_down = @ \cup {keycode},
              !.keys_pressed = IF repeat THEN @ ELSE @ \cup {keycode}]

KeyUpResult(s, keycode) ==
    [s EXCEPT !.keys_down = @ \ {keycode},
              !.keys_released = @ \cup {keycode}]

is_key_pressed(s, key_code) == key_code \in s.keys_pressed
is_key_down(s, key_code) == key_code \in s.keys_down
is_key_released(s, key_code) == key_code \in s.keys_released

\* a step of the InputState by the call event: nothing of the renderer changes
InputStep(s, event) ==
    /\ input' = [s EXCEPT !.event = event]
    /\ UNCHANGED <<pipelines, draw_calls, draw_calls_bindings,
                   draw_calls_count, state, max_vertices, max_indices,
                   batch_vertex_buffer, batch_index_buffer, gpu, drawn,
                   handles, others, frame, pipelines_amount, varied, lastOp,
                   panicked, preprocessed, atlas>>

InputNew ==
    \E simulate \in BOOLEAN :
        InputStep(NewInputState(simulate), NewInputState(simulate).event)

PostFrameCleanup ==
    InputStep(PostFrameCleanupResult(input), Event("cleanup", "", 0, FALSE))

KeyDownEvent(keycode, repeat) ==
    InputStep(KeyDownResult(input, keycode, repeat),
              Event("key_down", keycode, 0, repeat))

KeyUpEvent(keycode) ==
    InputStep(KeyUpResult(input, keycode), Event("key_up", keycode, 0, FALSE))

MouseButtonDownEvent(btn) ==
    \E pos \in Positions, cursor_grabbed \in BOOLEAN :
        InputStep(MouseButtonDownResult(input, btn, pos, cursor_grabbed),
                  Event("mouse_down", btn, 0, cursor_grabbed))

MouseButtonUpEvent(btn) ==
    \E pos \in Positions, cursor_grabbed \in BOOLEAN :
        InputStep(MouseButtonUpResult(input, btn, pos, cursor_grabbed),
                  Event("mouse_up", btn, 0, cursor_grabbed))

MouseWheelEvent ==
    \E wheel \in Wheels :
        InputStep(MouseWheelResult(input, wheel),
                  Event("wheel", "", 0, FALSE))

TouchEvent(phase, id) ==
    \E pos \in Positions, cursor_grabbed \in BOOLEAN :
        InputStep(TouchEventResult(input, phase, id, pos, cursor_grabbed),
                  Event("touch", phase, id, cursor_grabbed))

KeyEvents ==
    \E keycode \in Keys :
        \/ \E repeat \in BOOLEAN : KeyDownEvent(keycode, repeat)
        \/ KeyUpEvent(keycode)

MouseEvents ==
    \/ \E btn \in Buttons : MouseButtonDownEvent(btn) \/ MouseButtonUpEvent(btn)
    \/ MouseWheelEvent

TouchEvents == \E phase \in TouchPhases, id \in TouchIds : TouchEvent(phase, id)

\* keys, mouse and the frame
InputNext == KeyEvents \/ MouseEvents \/ PostFrameCleanup

InputSpec == Init /\ [][InputNext]_vars

\* touches and the frame, with the mouse simulated or not
TouchNext == InputNew \/ TouchEvents \/ PostFrameCleanup

TouchSpec == Init /\ [][TouchNext]_vars

----------------------------------------------------------------------------

(* TextureAtlas of src/texture/atlas.rs: AtlasSpec *)

GAP == 2

\* the keys and the sizes (width, height) of the sprites handed to cache_sprite
SpriteKeys == {1, 2, 3}
Sizes == { <<100, 100>>, <<300, 300>>, <<500, 10>>, <<10, 600>>, <<40000, 1>> }

\* TextureAtlas::get
get(a, key) == IF key \in DOMAIN a.sprites THEN Some(a.sprites[key]) ELSE None

\* the head of cache_sprite: the cursor moved along the line or to the next
\* line, and the x found for the sprite (16-bit sums that wrap)
AtlasCursor(a, width, height) ==
    IF U16(a.cursor_x + width) < a.width
    THEN [ atlas |-> [a EXCEPT
                        !.max_line_height = IF height > @ THEN height ELSE @,
                        !.cursor_x = U16(@ + U16(width + GAP * 2))],
           x |-> U16(a.cursor_x + GAP) ]
    ELSE [ atlas |-> [a EXCEPT
                        !.cursor_y = U16(@ + U16(a.max_line_height + GAP * 2)),
                        !.cursor_x = U16(width + GAP),
                        !.max_line_height = height],
           x |-> GAP ]

\* "texture bounds exceeded"
Exceeds(a, x, y, width, height) ==
    U16(y + height) > a.height \/ U16(x + width) > a.width

\* the atlas emptied before it grows: the sprites drained, the cursor reset
Emptied(a) ==
    [a EXCEPT !.sprites = << >>, !.cursor_x = 0, !.cursor_y = 0,
              !.max_line_height = 0]

\* cache_sprite: the atlases it can leave. Where the bounds are exceeded the
\* image doubles, the sprites drained are cached again in the order of the
\* drain of the HashMap (any order) and then the new one. Doubling a side of
\* 32768 overflows the 16 bits: a build with overflow checks panics there,
\* one without them makes an image of 0 by 0, which every further call
\* exceeds again (x is GAP), so the recursion has no end
RECURSIVE CacheSpriteResults(_, _, _, _)
RECURSIVE Recache(_, _, _)
CacheSpriteResults(a, key, width, height) ==
    LET c == AtlasCursor(a, width, height)
        b == c.atlas
        x == c.x
        y == b.cursor_y
    IN  IF Exceeds(b, x, y, width, height)
        THEN IF b.width * 2 >= 65536 \/ b.height * 2 >= 65536
             THEN { [Emptied(b) EXCEPT !.aborted = TRUE],
                    [Emptied(b) EXCEPT !.aborted = TRUE,
                                       !.width = U16(b.width * 2),
                                       !.height = U16(b.height * 2)] }
             ELSE UNION { CacheSpriteResults(r, key, width, height) :
                          r \in Recache([Emptied(b) EXCEPT
                                             !.width = b.width * 2,
                                             !.height = b.height * 2],
                                        b.sprites, DOMAIN b.sprites) }
        ELSE { [b EXCEPT !.dirty = TRUE,
                         !.sprites = (key :> [x |-> x, y |-> y, w |-> width,
                                              h |-> height]) @@ @] }

\* the loop that caches the drained sprites again, each cut out of the old
\* image with the size of its rect; a call that does not return ends it
Recache(a, old, keys) ==
    IF keys = {} \/ a.aborted THEN {a}
    ELSE UNION { UNION { Recache(r, old, keys \ {k}) :
                         r \in CacheSpriteResults(a, k, old[k].w, old[k].h) } :
                 k \in keys }

\* cache_sprite with a key not cached before
CacheSprite ==
    \E key \in SpriteKeys \ DOMAIN atlas.cached, size \in Sizes :
        /\ ~atlas.aborted
        /\ \E res \in CacheSpriteResults(atlas, key, size[1], size[2]) :
               atlas' = [res EXCEPT !.cached = (key :> size) @@ @]
        /\ UNCHANGED <<pipelines, draw_calls, draw_calls_bindings,
                       draw_calls_count, state, max_vertices, max_indices,
                       batch_vertex_buffer, batch_index_buffer, gpu, drawn,
                       handles, others, frame, pipelines_amount, varied,
                       lastOp, panicked, preprocessed, input>>

AtlasNext == CacheSprite

AtlasSpec == Init /\ [][AtlasNext]_vars

-----------------------------------------------------------------------------

(* Properties of the batcher and the flusher *)

IsFlush(op) == op \in {"flush", "reflush"}

RECURSIVE SumSeq(_)
SumSeq(seq) == IF seq = <<>> THEN 0 ELSE Head(seq) + SumSeq(Tail(seq))

RECURSIVE Flat(_)
Flat(seqs) == IF seqs = <<>> THEN <<>> ELSE Head(seqs) \o Flat(Tail(seqs))

\* what unbatched drawing would draw: every vertex of every push of the
\* frame, in push order, with the Render State of its push
PushedLog ==
    Flat([n \in 1..Len(frame) |->
            [j \in 1..Len(frame[n].vertices) |->
                [ vertex   |-> frame[n].vertices[j],
                  texture  |-> IF frame[n].texture = None THEN White
                               ELSE frame[n].texture[1],
                  viewport |-> AppliedViewport(frame[n]),
                  scissor  |-> AppliedScissor(frame[n]),
                  model    |-> frame[n].model,
                  pipeline |-> frame[n].gpu_pipeline,
                  pass     |-> frame[n].render_pass ]]])

\* what the indexed draws d drew: every vertex of every draw, in draw order
DrawnLog(d) ==
    Flat([i \in 1..Len(d) |->
            [j \in 1..Len(d[i].vertices) |->
                [ vertex   |-> d[i].vertices[j],
                  texture  |-> d[i].images[1],
                  viewport |-> d[i].viewport,
                  scissor  |-> d[i].scissor,
                  model    |-> d[i].uniforms[2],
                  pipeline |-> d[i].pipeline,
                  pass     |-> d[i].pass ]]])

\* C1: batching refines unbatched drawing.  Every flush issues one indexed
\* draw per pending draw call, and the vertices of those draws, read in draw
\* order, are the (clamped) vertices pushed in the frame, in push order, each
\* with the texture, viewport, scissor, model matrix, GPU pipeline and
\* render pass of the Render State at its push.
C1_BatchingRefinesUnbatched ==
    [][ IsFlush(lastOp') =>
            /\ Len(drawn') = draw_calls_count
            /\ DrawnLog(drawn') = PushedLog ]_vars

\* the Render State fields a draw call is keyed by
BatchFields ==
    { "texture", "clip", "viewport", "model", "override", "render_pass",
      "draw_mode", "capture" }

ChangedFields(a, b) == { f \in BatchFields : a[f] # b[f] }

\* push n of the frame opened a pending draw call of its own
OpenedCall(n) ==
    \E k \in 1..draw_calls_count :
        draw_calls[k].vertices_start + 1 = frame[n].vertices[1]

\* C2: whenever exactly one of texture, clip, viewport, top model matrix,
\* pipeline override, render pass, draw mode and capture flag differs between
\* two consecutive pushes (and nothing else of the Render State does), the
\* second push is in a draw call of its own.
C2_OneChangedFieldSplits ==
    ~panicked =>
        \A n \in 2..Len(frame) :
            ( /\ Cardinality(ChangedFields(frame[n - 1], frame[n])) = 1
              /\ frame[n - 1].depth_test_enable = frame[n].depth_test_enable )
            => OpenedCall(n)

PassedVertices == SumSeq([n \in 1..Len(frame) |-> frame[n].passed[1]])
PassedIndices == SumSeq([n \in 1..Len(frame) |-> frame[n].passed[2]])

\* C3: a run of pushes that starts with no pending draw call and is
\* interrupted by no other operation leaves exactly one pending draw call;
\* stated for the runs that stay below the capacity of one draw call.
C3_OneCallPerRun ==
    ( /\ lastOp = "pushes"
      /\ ~panicked
      /\ PassedVertices < max_vertices
      /\ PassedIndices < max_indices )
    => draw_calls_count = 1

PendingVertices ==
    SumSeq([k \in 1..draw_calls_count |-> draw_calls[k].vertices_count])
PendingIndices ==
    SumSeq([k \in 1..draw_calls_count |-> draw_calls[k].indices_count])

\* C4 (as stated): after a run of pushes with unchanged Render State the
\* counts of the pending draw calls sum to the counts passed to the pushes.
C4_CountsSumToPassed ==
    (lastOp = "pushes" /\ ~panicked) =>
        /\ PendingVertices = PassedVertices
        /\ PendingIndices = PassedIndices

\* C4 (amended): the counts of the pending draw calls sum to the counts
\* passed to the pushes, each cut down to the capacity of one draw call.
C4_CountsSumToClamped ==
    ~panicked =>
        /\ PendingVertices =
             SumSeq([n \in 1..Len(frame) |->
                        Min(frame[n].passed[1], max_vertices)])
        /\ PendingIndices =
             SumSeq([n \in 1..Len(frame) |->
                        Min(frame[n].passed[2], max_indices)])

\* a run of two pushes, the first with more indices than one call may hold
C4_Witness ==
    /\ lastOp = "pushes"
    /\ ~panicked
    /\ Len(frame) = 2
    /\ frame[1].passed[2] > max_indices
    /\ PendingIndices = max_indices + frame[2].passed[2]

\* C5: every index stored in the index range of a pending draw call is
\* smaller than the vertices_count of that call (every push of the model
\* supplies indices smaller than the number of vertices it passes).
C5_IndicesInsideTheCall ==
    ~panicked =>
        \A k \in 1..draw_calls_count :
            \A j \in (draw_calls[k].indices_start + 1)
                        ..(draw_calls[k].indices_start
                             + draw_calls[k].indices_count) :
                batch_index_buffer[j] < draw_calls[k].vertices_count

CountsWithinCapacity ==
    \A k \in 1..draw_calls_count :
        /\ draw_calls[k].vertices_count <= max_vertices
        /\ draw_calls[k].indices_count <= max_indices

\* C6: a push of more vertices or indices than one call may hold returns
\* normally and stores the first max_vertices vertices and max_indices
\* indices only, and the counts of every pending draw call stay within
\* max_vertices and max_indices.
C6_OversizePushIsClamped ==
    [][ /\ \A shape \in PushShapes :
              (Oversize(shape) /\ PushGeometryOf(shape)) =>
                  /\ ~panicked'
                  /\ batch_vertex_buffer' = batch_vertex_buffer
                       \o SubSeq(PushedVertices(shape[1]), 1,
                                 Min(shape[1], max_vertices))
                  /\ Len(batch_index_buffer') = Len(batch_index_buffer)
                       + Min(shape[2], max_indices)
        /\ CountsWithinCapacity' ]_vars

\* C7: when a flush returns, no draw call is pending, the two per-frame
\* arrays are empty and the counts of every call it flushed are zero; a
\* flush right after a flush issues no indexed draw.
C7_FlushDrains ==
    [][ (IsFlush(lastOp') /\ ~panicked') =>
            /\ draw_calls_count' = 0
            /\ batch_vertex_buffer' = <<>>
            /\ batch_index_buffer' = <<>>
            /\ \A k \in 1..draw_calls_count :
                  /\ draw_calls'[k].vertices_count = 0
                  /\ draw_calls'[k].indices_count = 0
            /\ (IsFlush(lastOp) => drawn' = <<>>) ]_vars

\* a flush of two pending calls has returned, and a flush has followed it
C7_Witness ==
    /\ lastOp = "reflush"
    /\ ~panicked
    /\ Len(draw_calls) = 2
    /\ draw_calls_count = 0
    /\ drawn = <<>>

\* C8: a flush never panics; it issues one indexed draw for each pending
\* draw call.
C8_FlushCompletes ==
    [][ IsFlush(lastOp') =>
            /\ ~panicked'
            /\ Len(drawn') = draw_calls_count ]_vars

\* the images the draw of call dc with pipeline p is to bind: the texture of
\* the call, then one image per declared name
ExpectedImages(dc, p) ==
    << IF dc.texture # None THEN dc.texture[1] ELSE White >>
    \o [i \in 1..Len(p.textures) |->
          IF p.textures[i] \in DOMAIN p.textures_data
          THEN p.textures_data[p.textures[i]] ELSE White]

\* C9: every indexed draw of a flush binds the texture of its call (or the
\* white texture) in slot 0 and, in slot 1 + i, the texture last set for the
\* i-th declared name of its pipeline (or the white texture): k + 1 images.
C9_ImagesOfADraw ==
    [][ IsFlush(lastOp') =>
            \A i \in 1..Len(drawn') :
                drawn'[i].images =
                    ExpectedImages(draw_calls[i],
                                   pipelines[draw_calls[i].pipeline][1]) ]_vars

\* the handle names a pipeline this renderer made and still holds
Genuine(h) ==
    /\ h.made_by = "this"
    /\ pipelines[h.id] # None
    /\ pipelines[h.id][1].pipeline = h.pipeline

\* C10: with_pipeline, set_uniform, set_uniform_array and set_texture panic
\* on every handle that another renderer made or whose pipeline was deleted.
C10_ForeignHandleRejected ==
    [][ \A h \in handles :
            ( /\ ~Genuine(h)
              /\ \/ WithPipelineOf(Some(h))
                 \/ SetUniformOf(h)
                 \/ SetUniformArrayOf(h)
                 \/ \E name \in TextureNames, texture \in TextureValues :
                       SetTextureOf(h, name, texture) )
            => panicked' ]_vars

\* the argument with_pipeline gets for the handle the caller passes
HandleArgument(h) == IF h = None THEN None ELSE Some(h[1].id)

\* C11: with_pipeline(p) sets the break-batching flag (and the override)
\* exactly when p differs from the override, a call with the current
\* override changes nothing, and a call with a handle whose slot is empty
\* panics and leaves the override and the flag as they were.
C11_WithPipelineBreaksOnChange ==
    [][ \A h \in Opt(handles) :
            WithPipelineOf(h) =>
                /\ (HandleArgument(h) = state.pipeline) => state' = state
                /\ (HandleArgument(h) # state.pipeline /\ ~panicked') =>
                      state' = [state EXCEPT !.break_batching = TRUE,
                                             !.pipeline = HandleArgument(h)]
                /\ (h # None /\ ~HasPipeline(pipelines, h[1].id)) =>
                      /\ panicked'
                      /\ state' = state ]_vars

IsPush(op) == op \in {"push", "pushes", "broken"}

\* C12: the push that follows set_uniform or set_uniform_array starts a draw
\* call and clears the break-batching flag, and the push that follows that
\* one, made with the same Render State and leaving room in the call, is
\* appended to the call the first one started.
C12_OneBreakPerUniformMutation ==
    [][ (IsPush(lastOp') /\ ~panicked') =>
            /\ lastOp = "set_uniform" =>
                  /\ draw_calls_count' = draw_calls_count + 1
                  /\ ~state'.break_batching
            /\ ( /\ lastOp = "broken"
                 /\ Len(batch_vertex_buffer') - Len(batch_vertex_buffer)
                      < max_vertices - draw_calls[draw_calls_count].vertices_count
                 /\ Len(batch_index_buffer') - Len(batch_index_buffer)
                      < max_indices - draw_calls[draw_calls_count].indices_count )
               => draw_calls_count' = draw_calls_count ]_vars

----------------------------------------------------------------------------
(* Properties of the uniform buffer (UniformSpec) *)

\* the first descriptor of pipeline p declared under name, 0 for none
Declared(p, name) ==
    IF \A i \in 1..Len(p.uniforms) : p.uniforms[i].name # name THEN 0
    ELSE CHOOSE i \in 1..Len(p.uniforms) :
            /\ p.uniforms[i].name = name
            /\ \A j \in 1..(i - 1) : p.uniforms[j].name # name

\* where the bytes of descriptor i start: after those of the ones before it
SpanStart(p, i) == SumSeq([j \in 1..(i - 1) |-> p.uniforms[j].byte_size])

\* data with bytes in place of the bytes [start, start + Len(bytes))
Spliced(data, start, bytes) ==
    SubSeq(data, 1, start) \o bytes
        \o SubSeq(data, start + Len(bytes) + 1, Len(data))

\* the bytes of descriptor i of the pipeline in slot id
SpanBytes(id, i) ==
    SubSeq(pipelines[id][1].uniforms_data,
           SpanStart(pipelines[id][1], i) + 1,
           SpanStart(pipelines[id][1], i) + pipelines[id][1].uniforms[i].byte_size)

\* C13: set_uniform with a value of exactly s bytes on a declared uniform of
\* one element of size s in {4, 8, 12, 16, 64} puts the value's bytes at
\* [offset, offset + s) and changes no other byte; set_uniform_array with
\* data of size * count bytes does so for the whole span of the descriptor.
\* (No such call is a step that panics or ends with other bytes.)
C13_UniformRoundTrip ==
    [][ \A h \in handles, name \in ByteNames, value \in ByteValues :
            LET p == pipelines[h.id][1]
                i == Declared(p, name)
                written == Spliced(p.uniforms_data, SpanStart(p, i), value)
                other == \/ panicked'
                         \/ pipelines'[h.id][1].uniforms_data # written
            IN  /\ ( /\ i # 0
                     /\ p.uniforms[i].byte_size = p.uniforms[i].uniform_type
                     /\ Len(value) = p.uniforms[i].uniform_type
                     /\ Len(value) \in {4, 8, 12, 16, 64}
                     /\ other )
                   => ~SetUniformBytesOf(h.id, name, value)
                /\ ( /\ i # 0
                     /\ Len(value) = p.uniforms[i].byte_size
                     /\ other )
                   => ~SetUniformArrayBytesOf(h.id, name, value) ]_vars

\* a 64-byte, a 12-byte and an array uniform hold the values written to them
C13_Witness ==
    /\ ~panicked
    /\ \E h \in handles :
          LET p == pipelines[h.id][1]
          IN  /\ Declared(p, "M") # 0
              /\ Declared(p, "F3") # 0
              /\ Declared(p, "Arr") # 0
              /\ SpanBytes(h.id, Declared(p, "M")) = ValueBytes(64, 100)
              /\ SpanBytes(h.id, Declared(p, "F3")) = ValueBytes(12, 7)
              /\ SpanBytes(h.id, Declared(p, "Arr")) = ValueBytes(16, 7)

\* C14: set_uniform with an undeclared name, with a value of another size
\* than one element of the uniform, or on an array uniform, and
\* set_uniform_array with data of another length than the whole span, return
\* normally and change no byte of the uniform buffer.
\* (No such call is a step that panics or changes a byte.)
C14_RejectedUniformWritesNothing ==
    [][ \A h \in handles, name \in ByteNames, value \in ByteValues :
            LET p == pipelines[h.id][1]
                i == Declared(p, name)
                other == \/ panicked'
                         \/ pipelines'[h.id][1].uniforms_data # p.uniforms_data
            IN  /\ ( /\ \/ i = 0
                        \/ Len(value) # p.uniforms[i].uniform_type
                        \/ p.uniforms[i].byte_size # p.uniforms[i].uniform_type
                     /\ other )
                   => ~SetUniformBytesOf(h.id, name, value)
                /\ ( /\ i # 0
                     /\ Len(value) # p.uniforms[i].byte_size
                     /\ other )
                   => ~SetUniformArrayBytesOf(h.id, name, value) ]_vars

\* a setter has run on a pipeline that declares an array and a name twice,
\* and every byte of its buffer is still zero
C14_Witness ==
    /\ ~panicked
    /\ lastOp = "set_uniform_array"
    /\ \E h \in handles :
          LET p == pipelines[h.id][1]
          IN  /\ Declared(p, "Arr") = 4
              /\ p.uniforms_data = ZeroBytes(Len(p.uniforms_data))

----------------------------------------------------------------------------
(* Properties of the registry *)

\* the texture bound to name in the PipelineExt p, None for none
Binding(p, name) ==
    IF name \in DOMAIN p.textures_data THEN Some(p.textures_data[name])
    ELSE None

\* C15: on a present pipeline, set_texture with a name the pipeline does not
\* declare panics and leaves its bindings as they were; with a declared name
\* it returns with the texture bound to the name, whatever was bound before,
\* and the bindings of the other names as they were.
C15_SetTextureBindsDeclaredName ==
    [][ \A h \in handles, name \in TextureNames, texture \in TextureValues :
            ( /\ pipelines[h.id] # None
              /\ SetTextureOf(h, name, texture) )
            => LET p == pipelines[h.id][1]
                   q == pipelines'[h.id][1]
               IN  IF \E i \in 1..Len(p.textures) : p.textures[i] = name
                   THEN /\ ~panicked'
                        /\ Binding(q, name) = Some(texture)
                        /\ \A n \in TextureNames \ {name} :
                              Binding(q, n) = Binding(p, n)
                   ELSE /\ panicked'
                        /\ q.textures_data = p.textures_data ]_vars

\* both declared names are bound, to different textures
C15_Witness ==
    /\ ~panicked
    /\ \E h \in handles :
          /\ pipelines[h.id] # None
          /\ Binding(pipelines[h.id][1], "A") = Some("TexA")
          /\ Binding(pipelines[h.id][1], "B") = Some(White)

\* the occupied slots
Occupied(ps) == { i \in DOMAIN ps : ps[i] # None }

\* the names of a declaration's textures
TextureNamesOf(decl) == { decl.textures[i] : i \in 1..Len(decl.textures) }

\* make_pipeline failed: it panicked or returned no handle
MakeFailed == panicked' \/ handles' = handles

\* C16: make_pipeline with the texture name "Texture" fails, and a
\* make_pipeline that fails, for the reserved name, for a shader that does not
\* compile or for a full registry, leaves the occupied slots and every record
\* of the registry as they were.
C16_FailedMakeLeavesRegistry ==
    [][ \A decl \in PipelineDecls \cup {ReservedDecl}, compiles \in BOOLEAN :
            MakePipelineOf(decl, compiles) =>
                /\ "Texture" \in TextureNamesOf(decl) => panicked'
                /\ ( \/ "Texture" \in TextureNamesOf(decl)
                     \/ ~compiles
                     \/ Occupied(pipelines) = DOMAIN pipelines ) => MakeFailed
                /\ MakeFailed => pipelines' = pipelines ]_vars

\* make_pipeline has panicked on a registry with user pipelines in it
C16_Witness ==
    /\ panicked
    /\ Cardinality(Occupied(pipelines)) > 4
    /\ \A h \in handles : pipelines[h.id] # None

\* C17: at most 32 slots are occupied, at most 28 of them by user pipelines;
\* make_pipeline with a free slot succeeds and returns the lowest free index,
\* make_pipeline with all 32 slots occupied fails.
C17_LowestFreeSlotOrFail ==
    [][ /\ Cardinality(Occupied(pipelines')) <= 32
        /\ Cardinality(Occupied(pipelines') \ {0, 1, 2, 3}) <= 28
        /\ \A decl \in PipelineDecls :
              MakePipelineOf(decl, TRUE) =>
                  LET free == DOMAIN pipelines \ Occupied(pipelines)
                  IN  IF free = {}
                      THEN panicked' /\ handles' = handles
                      ELSE /\ ~panicked'
                           /\ \E h \in handles' \ handles :
                                 /\ h.id \in free
                                 /\ \A j \in free : h.id <= j
                                 /\ Occupied(pipelines') =
                                        Occupied(pipelines) \cup {h.id} ]_vars

\* 28 user pipelines exist at once
C17_Witness ==
    /\ ~panicked
    /\ Occupied(pipelines) = DOMAIN pipelines
    /\ Cardinality({ h \in handles : h \notin Stale }) = 28

\* C18: delete_pipeline(h) empties the slot of h and no other slot, so that
\* has_pipeline(h) is false, and a make_pipeline after it takes a freed slot:
\* a full registry takes one more pipeline after a delete.
C18_DeleteFreesOneSlot ==
    [][ /\ \A h \in handles :
              DeletePipelineOf(h) =>
                  /\ ~HasPipeline(pipelines', h.id)
                  /\ \A i \in DOMAIN pipelines \ {h.id} :
                        pipelines'[i] = pipelines[i]
        /\ \A decl \in PipelineDecls, h \in handles :
              ( /\ DOMAIN pipelines \ Occupied(pipelines) = {h.id}
                /\ MakePipelineOf(decl, TRUE) )
              => /\ ~panicked'
                 /\ Occupied(pipelines') = DOMAIN pipelines
                 /\ \E g \in handles' \ handles : g.id = h.id ]_vars

\* the registry is full again after the pipeline of one handle was deleted
C18_Witness ==
    /\ ~panicked
    /\ Occupied(pipelines) = DOMAIN pipelines
    /\ gpu.next_pipeline = 4 + 29
    /\ Stale # {}

\* C19: slots 0 to 3 hold the four built-ins after construction and after
\* every sequence of make_pipeline and of delete_pipeline on handles that
\* make_pipeline returned, and every handle returned has an index of 4 or more.
C19_BuiltinsStay ==
    /\ \A i \in 0..3 : pipelines[i] = BuiltinPipelines[i] /\ pipelines[i] # None
    /\ \A h \in handles : h.id >= 4

\* a pipeline was deleted while others stay
C19_Witness ==
    /\ \E h \in handles : pipelines[h.id] = None
    /\ \E h \in handles : pipelines[h.id] # None

\* the built-in of a draw mode and a depth flag, as a table
BuiltinOf ==
    [ m \in DrawModes, d \in BOOLEAN |->
        CASE m = "Triangles" /\ ~d -> 0
          [] m = "Lines" /\ ~d     -> 1
          [] m = "Triangles" /\ d  -> 2
          [] m = "Lines" /\ d      -> 3 ]

\* C20: the draw call a push starts has as its pipeline the override of the
\* Render State if there is one, and otherwise the built-in of its draw mode
\* and depth flag: 0 for (Triangles, off), 1 for (Lines, off), 2 for
\* (Triangles, on), 3 for (Lines, on); the choice of the built-in is defined
\* on the four combinations and gives four different pipelines.
C20_PipelineOfNewCall ==
    [][ /\ \A m \in DrawModes, d \in BOOLEAN :
              /\ GetDefaultPipelineBy(m, d) = BuiltinOf[m, d]
              /\ \A n \in DrawModes, e \in BOOLEAN :
                    GetDefaultPipelineBy(m, d) = GetDefaultPipelineBy(n, e)
                        => (m = n /\ d = e)
        /\ ( /\ IsPush(lastOp')
             /\ ~panicked'
             /\ draw_calls_count' = draw_calls_count + 1 )
           => draw_calls'[draw_calls_count'].pipeline =
                  IF state.pipeline # None THEN state.pipeline[1]
                  ELSE BuiltinOf[state.draw_mode, state.depth_test_enable]
      ]_vars

\* a call of lines with depth test is pending
C20_Witness ==
    /\ ~panicked
    /\ state.pipeline = None
    /\ \E i \in 1..draw_calls_count : draw_calls[i].pipeline = 3

----------------------------------------------------------------------------
(* Properties of the uniform descriptors (UniformSpec) *)

\* the bytes [byte_offset, byte_offset + byte_size) of a descriptor
ByteRange(u) == u.byte_offset..(u.byte_offset + u.byte_size - 1)

\* p was made from the declared uniforms decl: the three reserved uniforms,
\* then those of decl in their order, each of size * count bytes
MadeFrom(p, decl) ==
    /\ Len(p.uniforms) = 3 + Len(decl)
    /\ p.uniforms[1].name = "Projection" /\ p.uniforms[1].byte_offset = 0
    /\ p.uniforms[1].byte_size = 64
    /\ p.uniforms[2].name = "Model" /\ p.uniforms[2].byte_offset = 64
    /\ p.uniforms[2].byte_size = 64
    /\ p.uniforms[3].name = "_Time" /\ p.uniforms[3].byte_offset = 128
    /\ p.uniforms[3].byte_size = 16
    /\ \A i \in 1..Len(decl) :
          /\ p.uniforms[3 + i].name = decl[i].name
          /\ p.uniforms[3 + i].uniform_type = decl[i].uniform_type
          /\ p.uniforms[3 + i].byte_size =
                 decl[i].uniform_type * decl[i].array_count

\* C21: the descriptors of every pipeline are Projection (offset 0, 64
\* bytes), Model (offset 64, 64 bytes) and _Time (offset 128, 16 bytes), then
\* the declared uniforms in their order; the offset of each is the sum of
\* size * count of those before it, the byte ranges of two descriptors are
\* disjoint, and the uniform buffer is as long as the sum of all of them.
C21_DescriptorLayout ==
    \A id \in DOMAIN pipelines :
        pipelines[id] # None =>
            LET p == pipelines[id][1]
                n == Len(p.uniforms)
            IN  /\ \E decl \in ByteDecls \cup {<<>>} : MadeFrom(p, decl)
                /\ \A i \in 1..n :
                      p.uniforms[i].byte_offset =
                          SumSeq([j \in 1..(i - 1) |-> p.uniforms[j].byte_size])
                /\ \A i, j \in 1..n :
                      i # j => ByteRange(p.uniforms[i])
                                   \cap ByteRange(p.uniforms[j]) = {}
                /\ Len(p.uniforms_data) =
                       SumSeq([j \in 1..n |-> p.uniforms[j].byte_size])

\* a pipeline with an array uniform in front of two more uniforms exists
C21_Witness ==
    \E h \in handles :
        /\ pipelines[h.id] # None
        /\ MadeFrom(pipelines[h.id][1],
                    << UniformDesc("Arr", 4, 3), UniformDesc("F1", 4, 1),
                       UniformDesc("F1", 8, 1) >>)
        /\ Len(pipelines[h.id][1].uniforms_data) = 168

----------------------------------------------------------------------------
(* Properties of the flush and of the Render State *)

\* C22: a call with the clip (x, y, w, h) is drawn with the scissor
\* (x, H - (y + h), w, h) and a call without a clip with (0, 0, W, H), where
\* (W, H) is the size of the texture of the call's render pass, or of the
\* screen for the backbuffer.
C22_ScissorIsFlipped ==
    [][ IsFlush(lastOp') =>
            \A i \in 1..Len(drawn') :
                LET dc == draw_calls[i]
                    W == IF dc.render_pass = None THEN ScreenSize[1]
                         ELSE PassTextureSize(dc.render_pass[1])[1]
                    H == IF dc.render_pass = None THEN ScreenSize[2]
                         ELSE PassTextureSize(dc.render_pass[1])[2]
                IN  drawn'[i].scissor =
                        IF dc.clip = None THEN <<0, 0, W, H>>
                        ELSE <<dc.clip[1][1],
                               H - (dc.clip[1][2] + dc.clip[1][4]),
                               dc.clip[1][3], dc.clip[1][4]>> ]_vars

\* the clip (10, 10, 50, 50) was drawn on the screen of height 200 with the
\* y origin 140 and on a pass texture of height 64 with the y origin 4
C22_Witness ==
    /\ IsFlush(lastOp)
    /\ \E i, j \in 1..Len(drawn) :
          /\ drawn[i].pass = None
          /\ drawn[i].scissor = <<10, 140, 50, 50>>
          /\ drawn[j].pass # None
          /\ drawn[j].scissor = <<10, 4, 50, 50>>

\* C23: clear issues one pass with the clear action, on the render pass of
\* the Render State or on the backbuffer when there is none, and no indexed
\* draw, and leaves no pending draw call; a flush draws no vertex that was
\* pushed before the last clear.
C23_ClearDropsPendingCalls ==
    [][ /\ Clear =>
              /\ drawn' = << [action |-> "clear", pass |-> state.render_pass] >>
              /\ draw_calls_count' = 0
        /\ IsFlush(lastOp') =>
              \A i \in 1..Len(drawn') :
                  \A j \in 1..Len(drawn'[i].vertices) :
                      \E n \in 1..Len(frame) :
                          \E k \in 1..Len(frame[n].vertices) :
                              frame[n].vertices[k] = drawn'[i].vertices[j]
      ]_vars

\* clear has run on a render pass while geometry was pending
C23_Witness ==
    /\ ~panicked
    /\ drawn = << [action |-> "clear", pass |-> Some("RP1")] >>
    /\ draw_calls_count = 0
    /\ batch_vertex_buffer # <<>>

\* C24: the model-matrix stack has identity at its bottom, alone at the
\* start, and is never empty; push_model_matrix(m) puts top * m on the
\* stack; pop_model_matrix on a depth above 1 removes the top and returns it,
\* on depth 1 it returns None and leaves the stack; a pop after a push gives
\* back the stack, and so the top, of before the push.
C24_ModelStack ==
    /\ [] /\ Len(state.model_stack) >= 1
          /\ state.model_stack[1] = IDENTITY
          /\ \A m \in StackMatrices :
                PopModelMatrixResult(PushModelMatrixResult(state, m))
                    = [returned |-> Some(MatMul(Model(state), m)),
                       state |-> state]
    /\ [][ /\ StackPush =>
                 \E m \in StackMatrices :
                     state'.model_stack =
                         state.model_stack \o
                             << MatMul(state.model_stack[Len(state.model_stack)], m) >>
           /\ StackPop =>
                 LET depth == Len(state.model_stack)
                     r == PopModelMatrixResult(state)
                 IN  /\ state' = r.state
                     /\ IF depth > 1
                        THEN /\ r.returned = Some(state.model_stack[depth])
                             /\ state'.model_stack =
                                    [i \in 1..(depth - 1) |-> state.model_stack[i]]
                        ELSE /\ r.returned = None
                             /\ state'.model_stack = state.model_stack
         ]_vars

\* matrix 4 was pushed on top of matrix 2: the top is their product 2 * 4,
\* which is not 4 * 2
C24_Witness ==
    /\ state.model_stack = <<1, 2, 5>>
    /\ MatMul(2, 4) = 5
    /\ MatMul(4, 2) # 5

----------------------------------------------------------------------------
(* Properties of preprocess_shader (PreprocessSpec) *)

RECURSIVE Included(_, _)
\* the source with every directive replaced by the content registered
\* under its name and every other piece as it is
Included(pieces, includes) ==
    IF pieces = <<>> THEN <<>>
    ELSE (IF Head(pieces).include
          THEN IncludeContent(includes, Head(pieces).name)[1]
          ELSE Head(pieces).chars) \o Included(Tail(pieces), includes)

\* C25: preprocess_shader returns the source with every include directive
\* replaced by the content registered under its name and all other text
\* unchanged, whenever every included name is on the includes list
C25_PreprocessReplacesEveryInclude ==
    preprocessed.result # None =>
        preprocessed.result[1] =
            [panic |-> FALSE,
             text |-> Included(preprocessed.pieces, preprocessed.includes)]

----------------------------------------------------------------------------
(* Properties of the draw call a push starts *)

\* C26: the draw call a push starts, in a fresh record or in a reused one,
\* has the texture, clip, viewport, model matrix, pipeline, render pass, draw
\* mode and capture flag of the Render State, and counts only the vertices
\* and indices of this push.
C26_NewCallHasRenderState ==
    [][ ( /\ IsPush(lastOp')
          /\ ~panicked'
          /\ draw_calls_count' = draw_calls_count + 1 )
        => LET dc == draw_calls'[draw_calls_count']
           IN  /\ dc.texture = state.texture
               /\ dc.clip = state.clip
               /\ dc.viewport = state.viewport
               /\ dc.model = Model(state)
               /\ dc.pipeline = IF state.pipeline # None
                                THEN state.pipeline[1]
                                ELSE GetDefaultPipelineBy(state.draw_mode,
                                         state.depth_test_enable)
               /\ dc.render_pass = state.render_pass
               /\ dc.draw_mode = state.draw_mode
               /\ dc.capture = state.capture
               /\ dc.vertices_count =
                      Len(batch_vertex_buffer') - Len(batch_vertex_buffer)
               /\ dc.indices_count =
                      Len(batch_index_buffer') - Len(batch_index_buffer)
      ]_vars

\* C27: a draw call started while a pipeline override is active carries a
\* copy of the uniform data that pipeline has at that moment; a uniform
\* setter leaves the payload of every pending call as it is; and the flush
\* draws every call with the caller-declared uniforms of its payload, so
\* calls pushed before and after a set_uniform are drawn with the old and
\* with the new value.
C27_PayloadIsSnapshot ==
    [][ /\ ( /\ IsPush(lastOp')
             /\ ~panicked'
             /\ draw_calls_count' = draw_calls_count + 1
             /\ state.pipeline # None )
           => draw_calls'[draw_calls_count'].uniforms =
                  Some(pipelines[state.pipeline[1]][1].uniforms_data)
        /\ lastOp' = "set_uniform"
           => \A i \in 1..draw_calls_count :
                  draw_calls'[i].uniforms = draw_calls[i].uniforms
        /\ (lastOp' \in {"flush", "reflush"} /\ ~panicked')
           => /\ Len(drawn') = draw_calls_count
              /\ \A i \in 1..draw_calls_count :
                    draw_calls[i].uniforms # None
                    => \A k \in 4..Len(draw_calls[i].uniforms[1]) :
                          drawn'[i].uniforms[k] = draw_calls[i].uniforms[1][k]
      ]_vars

\* a flush has drawn two calls of one material, the first with the value
\* its uniform had before a set_uniform and the second with the value set
C27_Witness ==
    /\ lastOp = "flush"
    /\ ~panicked
    /\ Len(drawn) = 2
    /\ drawn[1].pipeline = drawn[2].pipeline
    /\ drawn[1].pipeline >= 4
    /\ Len(drawn[1].uniforms) >= 4
    /\ drawn[1].uniforms[4] = 0
    /\ drawn[2].uniforms[4] = 7

\* C28: a flush leaves the caller-declared uniforms of every pipeline as
\* they are: after it each of them still holds the value a uniform setter
\* wrote last, and only Projection, Model and _Time may differ.
C28_FlushKeepsDeclaredUniforms ==
    [][ (lastOp' \in {"flush", "reflush"} /\ ~panicked')
        => \A id \in DOMAIN pipelines :
              pipelines[id] # None
              => /\ pipelines'[id] # None
                 /\ \A k \in 4..Len(pipelines[id][1].uniforms_data) :
                       pipelines'[id][1].uniforms_data[k] =
                           pipelines[id][1].uniforms_data[k]
      ]_vars

\* C29: in every reachable state each pending draw call refers to an
\* occupied slot of the registry, the slot of the last pending call holds
\* the pipeline that call was started with, and a uniform payload is as
\* long as the uniform buffer of the pipeline in the slot, so no lookup of
\* a pending call's pipeline finds an empty slot.
C29_PendingCallsHaveTheirPipeline ==
    /\ \A i \in 1..draw_calls_count :
          /\ i <= Len(draw_calls)
          /\ pipelines[draw_calls[i].pipeline] # None
          /\ draw_calls[i].uniforms # None
             => Len(draw_calls[i].uniforms[1]) =
                    Len(pipelines[draw_calls[i].pipeline][1].uniforms_data)
    /\ (draw_calls_count > 0 /\ frame # <<>> /\ ~panicked)
       => pipelines[draw_calls[draw_calls_count].pipeline][1].pipeline =
              frame[Len(frame)].gpu_pipeline

\* C30: a push is appended to the last pending draw call whenever the
\* compared fields of that call equal those of the Render State, the
\* break-batching flag is clear, and the counts of the call plus the pushed
\* vertices and indices stay within max_vertices and max_indices: a call is
\* started for capacity only when appending would exceed a limit.
C30_AppendsUpToTheLimits ==
    [][ ( /\ IsPush(lastOp')
          /\ ~panicked'
          /\ draw_calls_count > 0
          /\ LET dc == draw_calls[draw_calls_count]
                 passed == frame'[Len(frame')].passed
             IN  /\ dc.texture = state.texture
                 /\ dc.clip = state.clip
                 /\ dc.viewport = state.viewport
                 /\ dc.model = Model(state)
                 /\ dc.pipeline = EffectivePipeline(state)
                 /\ dc.render_pass = state.render_pass
                 /\ dc.draw_mode = state.draw_mode
                 /\ dc.capture = state.capture
                 /\ ~state.break_batching
                 /\ dc.vertices_count + passed[1] <= max_vertices
                 /\ dc.indices_count + passed[2] <= max_indices )
        => draw_calls_count' = draw_calls_count
      ]_vars

----------------------------------------------------------------------------
(* Properties of the shared arrays and of the capacity *)

\* the ranges of the pending calls in one array: starts and counts
RangesInOrder(start, count, len) ==
    /\ \A i \in 1..draw_calls_count :
          start[i] + count[i] <= len
    /\ \A i \in 1..(draw_calls_count - 1) :
          start[i] + count[i] <= start[i + 1]

\* C31: in every reachable state the vertex ranges of the pending draw
\* calls lie inside the shared vertex array, do not overlap and ascend in
\* the order of creation, and likewise the index ranges; the start of a
\* call is the length of the array at the moment the call is started; so
\* every slice the flush takes is inside its array.
C31_RangesInsideAndAscending ==
    /\ [](~panicked =>
            /\ draw_calls_count <= Len(draw_calls)
            /\ RangesInOrder([i \in 1..draw_calls_count |->
                                 draw_calls[i].vertices_start],
                             [i \in 1..draw_calls_count |->
                                 draw_calls[i].vertices_count],
                             Len(batch_vertex_buffer))
            /\ RangesInOrder([i \in 1..draw_calls_count |->
                                 draw_calls[i].indices_start],
                             [i \in 1..draw_calls_count |->
                                 draw_calls[i].indices_count],
                             Len(batch_index_buffer)))
    /\ [][ ( /\ IsPush(lastOp')
             /\ ~panicked'
             /\ draw_calls_count' = draw_calls_count + 1 )
           => /\ draw_calls'[draw_calls_count'].vertices_start =
                     Len(batch_vertex_buffer)
              /\ draw_calls'[draw_calls_count'].indices_start =
                     Len(batch_index_buffer)
         ]_vars

\* two calls are pending, the first started behind a vertex that a clear or
\* a change of the capacity left in the array, the second behind the first
C31_Witness ==
    /\ ~panicked
    /\ draw_calls_count = 2
    /\ draw_calls[1].vertices_start > 0
    /\ draw_calls[1].vertices_count > 0
    /\ draw_calls[2].vertices_start =
           draw_calls[1].vertices_start + draw_calls[1].vertices_count
    /\ draw_calls[2].vertices_count > 0

RECURSIVE PendingCount(_, _)
\* the sum over the first n draw calls of the vertex or the index count
PendingCount(n, field) ==
    IF n = 0 THEN 0
    ELSE PendingCount(n - 1, field) +
         (IF field = "vertices" THEN draw_calls[n].vertices_count
          ELSE draw_calls[n].indices_count)

\* C32: in every reachable state the shared vertex array is as long as the
\* sum of vertices_count over the pending draw calls, and the index array as
\* the sum of indices_count: both are empty whenever no call is pending,
\* whichever operation dropped the calls.
C32_ArraysHoldThePendingCalls ==
    ~panicked =>
        /\ Len(batch_vertex_buffer) =
               PendingCount(draw_calls_count, "vertices")
        /\ Len(batch_index_buffer) =
               PendingCount(draw_calls_count, "indices")

----------------------------------------------------------------------------
(* Properties of set_texture and the batch *)

\* C33: set_texture on a pipeline sets the break-batching flag, and the
\* push that follows a set_texture starts a draw call although a call is
\* pending and the Render State is as it was: the geometry pushed after the
\* change of the texture is not merged into a call started before it.
C33_SetTextureBreaksTheBatch ==
    [][ /\ (lastOp' = "set_texture" /\ ~panicked')
           => state'.break_batching
        /\ ( /\ lastOp = "set_texture"
             /\ draw_calls_count > 0
             /\ IsPush(lastOp')
             /\ ~panicked' )
           => draw_calls_count' = draw_calls_count + 1
      ]_vars

----------------------------------------------------------------------------
(* Properties of the index offset (IndexSpec) *)

\* the vertices_count the call a push writes into had before the push
CountBeforePush ==
    IF draw_calls_count' = draw_calls_count
    THEN draw_calls[draw_calls_count].vertices_count
    ELSE 0

\* the indices push_geometry was given, after the clamp
PushedIndices ==
    LET passed == frame'[Len(frame')].passed
    IN  Clamp(ShapeIndices(passed[1], passed[2]), max_indices)

\* C34: whatever capacity the renderer was given, every index a push writes
\* to the shared index array is the pushed index plus the vertices_count the
\* draw call had before the push, as a number: nothing of the sum or of the
\* offset is lost to the 16 bits of an index.
C34_IndexIsOffsetByCount ==
    [][ (IsPush(lastOp') /\ ~panicked')
        => /\ Len(batch_index_buffer') =
                  Len(batch_index_buffer) + Len(PushedIndices)
           /\ \A k \in 1..Len(PushedIndices) :
                 batch_index_buffer'[Len(batch_index_buffer) + k] =
                     PushedIndices[k] + CountBeforePush
      ]_vars

----------------------------------------------------------------------------
(* Properties of reset and of update_drawcall_capacity *)

\* C35: after reset no draw call is pending and the Render State is the one
\* of a renderer just constructed: no texture, no clip, the model stack
\* [identity], no viewport, draw mode Triangles, no pipeline override, depth
\* test off, no render pass, capture off and the break-batching flag clear.
C35_ResetRestoresTheDefault ==
    [][ Reset => (draw_calls_count' = 0 /\ state' = InitState) ]_vars

\* the GPU buffers of a sequence of bindings, one entry per use
BuffersOf(bindings) ==
    [n \in 1..(2 * Len(bindings)) |->
        IF n % 2 = 1 THEN bindings[(n + 1) \div 2].vertex_buffers[1]
        ELSE bindings[n \div 2].index_buffer]

\* C36: update_drawcall_capacity(mv, mi) leaves no pending draw call,
\* deletes every buffer of the existing bindings (each is held by one
\* binding only, so it is deleted once) and gives every binding a pair of
\* buffers created in the call, as many pairs as before; mv and mi are the
\* limits from then on: the counts of every pending draw call stay within
\* max_vertices and max_indices, which no other operation changes.
C36_CapacityUpdateRebuildsBuffers ==
    /\ [](~panicked =>
            /\ \A n, m \in 1..(2 * Len(draw_calls_bindings)) :
                  /\ BuffersOf(draw_calls_bindings)[n] \in gpu.buffers
                  /\ n # m => BuffersOf(draw_calls_bindings)[n] #
                              BuffersOf(draw_calls_bindings)[m]
            /\ \A i \in 1..draw_calls_count :
                  /\ draw_calls[i].vertices_count <= max_vertices
                  /\ draw_calls[i].indices_count <= max_indices)
    /\ [][ /\ \A cap \in Capacities :
                UpdateDrawcallCapacityTo(cap)
                => /\ draw_calls_count' = 0
                   /\ max_vertices' = cap[1]
                   /\ max_indices' = cap[2]
                   /\ Len(draw_calls_bindings') = Len(draw_calls_bindings)
                   /\ \A n \in 1..(2 * Len(draw_calls_bindings)) :
                         /\ BuffersOf(draw_calls_bindings)[n]
                                \notin gpu'.buffers
                         /\ BuffersOf(draw_calls_bindings')[n]
                                \notin gpu.buffers
                         /\ BuffersOf(draw_calls_bindings')[n]
                                \in gpu'.buffers
           /\ (max_vertices' # max_vertices \/ max_indices' # max_indices)
              => \E cap \in Capacities : UpdateDrawcallCapacityTo(cap)
         ]_vars

\* two bindings were rebuilt by a change of the capacity from 3 vertices to
\* 2, and a draw call started after it holds 2 vertices of a push of more
C36_Witness ==
    /\ ~panicked
    /\ gpu.resizes = 1
    /\ Len(draw_calls_bindings) = 2
    /\ draw_calls_bindings[1].vertex_buffers[1] >= 4
    /\ draw_calls_count = 1
    /\ max_vertices = MaxVerticesInit - 1
    /\ draw_calls[1].vertices_count = max_vertices
    /\ frame[Len(frame)].passed[1] > max_vertices

\* C37: a key enters the pressed set only by a key-down that is no repeat and
\* the released set only by its key-up; it is down from its key-down until
\* its next key-up; the cleanup of a frame empties the pressed and released
\* sets of keys and buttons and zeroes the wheel, and leaves the keys and
\* buttons that are down as they were
C37_KeyPressedForOneFrame ==
    [][ LET e == input'.event
        IN  /\ \A k \in Keys :
                /\ (is_key_pressed(input', k) /\ ~is_key_pressed(input, k))
                       => e = Event("key_down", k, 0, FALSE)
                /\ (is_key_released(input', k) /\ ~is_key_released(input, k))
                       => e = Event("key_up", k, 0, FALSE)
                /\ (is_key_down(input', k) /\ ~is_key_down(input, k))
                       => (e.kind = "key_down" /\ e.name = k)
                /\ (~is_key_down(input', k) /\ is_key_down(input, k))
                       => e = Event("key_up", k, 0, FALSE)
                /\ e = Event("key_down", k, 0, FALSE)
                       => (is_key_pressed(input', k) /\ is_key_down(input', k))
                /\ e = Event("key_down", k, 0, TRUE)
                       => /\ is_key_down(input', k)
                          /\ is_key_pressed(input', k) = is_key_pressed(input, k)
                /\ e = Event("key_up", k, 0, FALSE)
                       => (is_key_released(input', k) /\ ~is_key_down(input', k))
            /\ e.kind = "cleanup"
                   => /\ input'.keys_pressed = {}
                      /\ input'.keys_released = {}
                      /\ input'.mouse_pressed = {}
                      /\ input'.mouse_released = {}
                      /\ input'.mouse_wheel = <<0, 0>>
                      /\ input'.keys_down = input.keys_down
                      /\ input'.mouse_down = input.mouse_down ]_vars

\* a frame was cleaned up while A was held and its repeat arrived: A is down
\* and not pressed, and B was released in this frame
C37_Witness ==
    /\ input.event = Event("key_down", "A", 0, TRUE)
    /\ is_key_down(input, "A") /\ ~is_key_pressed(input, "A")
    /\ is_key_released(input, "B")

\* the ids of the touches held
TouchIdsOf(s) == { t.id : t \in s.touches }

\* C38: right after the cleanup of a frame every touch that remains is
\* Stationary and the touches that had ended or were cancelled are gone; the
\* id of a touch leaves only in a cleanup, after an Ended or a Cancelled event
\* for it; there is at most one touch per id
C38_TouchesAfterCleanup ==
    /\ [](\A t, u \in input.touches : t.id = u.id => t = u)
    /\ [][ LET e == input'.event
           IN  /\ e.kind = "cleanup"
                      => /\ \A t \in input'.touches : t.phase = "Stationary"
                         /\ TouchIdsOf(input') =
                              { t.id : t \in { u \in input.touches :
                                  u.phase \notin {"Ended", "Cancelled"} } }
               /\ \A t \in input.touches :
                      (e.kind # "new" /\ t.id \notin TouchIdsOf(input'))
                          => /\ e.kind = "cleanup"
                             /\ t.phase \in {"Ended", "Cancelled"}
               /\ \A t \in input'.touches :
                      (t.phase \in {"Ended", "Cancelled"} /\ t \notin input.touches)
                          => (e.kind = "touch" /\ e.name = t.phase /\ e.id = t.id)
         ]_vars

\* a frame was cleaned up and the touch 1 is the one left, Stationary
C38_Witness ==
    /\ input.event.kind = "cleanup"
    /\ TouchIdsOf(input) = {1}
    /\ \A t \in input.touches : t.phase = "Stationary"

\* the touches that have started and have received neither Ended nor Cancelled
LiveTouches(s) == { t \in s.touches : t.phase \notin {"Ended", "Cancelled"} }

\* C39: with the mouse simulated by touches and no event of a real mouse,
\* Left is down after a touch has Started, and is down no more once every
\* touch that started has received Ended or Cancelled
C39_SimulatedLeftFollowsTouches ==
    /\ [][ (input'.simulate_mouse_with_touch
              /\ input'.event.kind = "touch" /\ input'.event.name = "Started")
               => "Left" \in input'.mouse_down ]_vars
    /\ []( (input.simulate_mouse_with_touch /\ LiveTouches(input) = {})
               => "Left" \notin input.mouse_down )

\* two rects of the atlas share a pixel
Overlap(p, q) ==
    /\ p.x < q.x + q.w /\ q.x < p.x + p.w
    /\ p.y < q.y + q.h /\ q.y < p.y + p.h

\* the sprite cached with key is found by get with the size it was given,
\* inside the image
SpriteKept(a, key) ==
    /\ get(a, key) # None
    /\ LET rect == get(a, key)[1]
       IN  /\ <<rect.w, rect.h>> = a.cached[key]
           /\ rect.x >= 0 /\ rect.y >= 0
           /\ rect.x + rect.w <= a.width
           /\ rect.y + rect.h <= a.height

\* C40: after cache_sprite calls with distinct keys every key is found by
\* get, with a rect of the width and height of its sprite that lies inside
\* the image of the atlas; the rects of two keys do not overlap; the width
\* and the height of the atlas never decrease
C40_AtlasKeepsEverySprite ==
    /\ [](/\ \A key \in DOMAIN atlas.cached : SpriteKept(atlas, key)
          /\ \A j, k \in DOMAIN atlas.sprites :
                 j # k => ~Overlap(atlas.sprites[j], atlas.sprites[k]))
    /\ [][ atlas'.width >= atlas.width /\ atlas'.height >= atlas.height ]_vars

====
